---- MODULE Spec2Model ----
(***************************************************************************)
(* A model of the LLM Council backend (backend/council.py, llm_client.py,  *)
(* main.py, supabase_storage.py, config.py).                               *)
(*                                                                         *)
(* Text is a sequence of lexemes.  The lexemes are chosen so that every    *)
(* match of the source's regular expressions and of its split marker is a  *)
(* run of whole lexemes:                                                   *)
(*   "FINAL RANKING:"          the literal marker of str.split             *)
(*   "Response A" ...          one match of  Response [A-Z]                *)
(*   "1", "2", "3"             one character of class \d                   *)
(*   "."                       the literal \.                              *)
(*   " "                       one character of class \s                   *)
(*   "x"                       any other text                              *)
(* average_rank is held in hundredths (1.5 is 150): round(avg, 2).         *)
(***************************************************************************)
EXTENDS Integers, Sequences, FiniteSets, TLC

VARIABLES
    store,              \* the conversation record held by the store
    path,               \* "none" | "batch" (send_message) | "stream" (send_message_stream)
    pc,                 \* where the request handler stands
    history,            \* conversation["messages"] read when the request arrived
    is_first_message,   \* len(history) == 0
    q1,                 \* the Stage 1 query of each council model
    q2,                 \* the Stage 2 query of each council model
    q3,                 \* the chairman query
    qt,                 \* the title query
    calls,              \* how many queries were issued, per stage and model
    sent,               \* the messages of the Stage 1 and Stage 2 query of each model
    stage1_results,
    stage2_results,
    label_to_model,
    aggregate_rankings,
    stage3_result,
    metadata,           \* the fourth value run_full_council returns
    council,            \* run_full_council: "none" | "running" | "returned" | "raised"
    outcome,            \* the request: "none" | "http404" | "returned" | "raised" | "streamed"
    events,             \* the event types the incremental path has emitted
    title,              \* what generate_conversation_title returned
    text,             \* ParseSpec: ranking_text handed to the parser
    parsed,           \* ParseSpec: what parse_ranking_from_text returned
    ppc,              \* ParseSpec: "build" | "parsed"
    a_stage1,         \* AggSpec: stage1_results handed to Stage 2
    a_stage2,         \* AggSpec: stage2_results handed to the aggregator
    a_label_to_model, \* AggSpec: label_to_model built by Stage 2
    a_aggregate,      \* AggSpec: what calculate_aggregate_rankings returned
    apc,              \* AggSpec: "input" | "labelled" | "aggregated"
    r_models,         \* RouterSpec: the list handed to query_models_parallel
    r_tasks,          \* RouterSpec: the query_model task of each list element
    r_result,         \* RouterSpec: the mapping query_models_parallel returned
    rpc,              \* RouterSpec: "input" | "running" | "returned"
    w_base,           \* StoreSpec: the row before either writer ran
    w_row,            \* StoreSpec: the row of the conversation in the table
    w_call,           \* StoreSpec: the storage function each writer runs
    w_conv,           \* StoreSpec: the conversation dict each writer holds
    w_log,            \* StoreSpec: the requests the table served, in order
    wpc,              \* StoreSpec: each writer, "start" | "read" | "saved" | "raised"
    h_history,        \* HistorySpec: the stored messages handed to build_chat_history
    h_messages,       \* HistorySpec: the message list it returned
    hpc               \* HistorySpec: "input" | "built"

svars == <<store, path, pc, history, is_first_message, q1, q2, q3, qt, calls, sent,
           stage1_results, stage2_results, label_to_model, aggregate_rankings,
           stage3_result, metadata, council, outcome, events, title>>
pvars == <<text, parsed, ppc>>
avars == <<a_stage1, a_stage2, a_label_to_model, a_aggregate, apc>>
rvars == <<r_models, r_tasks, r_result, rpc>>
wvars == <<w_base, w_row, w_call, w_conv, w_log, wpc>>
hvars == <<h_history, h_messages, hpc>>
vars == <<svars, pvars, avars, rvars, wvars, hvars>>

----------------------------------------------------------------------------
(* Bounds of the model *)

\* longest text built lexeme by lexeme in ParseSpec
MaxLen == 5
\* most rankers in a Stage 2 result list of AggSpec
MaxRankers == 2
\* longest ranking text of a ranker in AggSpec
MaxRankLen == 3
\* most Stage 1 results in AggSpec
MaxResults == 2
\* longest list handed to query_models_parallel in RouterSpec
MaxModels == 2
\* longest stored history in HistorySpec
MaxHistory == 3

----------------------------------------------------------------------------
(* Lexemes *)

Marker == "FINAL RANKING:"

\* "Response " + chr(65 + i), i = 0..25
LabelSeq ==
    << "Response A", "Response B", "Response C", "Response D", "Response E",
       "Response F", "Response G", "Response H", "Response I", "Response J",
       "Response K", "Response L", "Response M", "Response N", "Response O",
       "Response P", "Response Q", "Response R", "Response S", "Response T",
       "Response U", "Response V", "Response W", "Response X", "Response Y",
       "Response Z" >>

Labels == { LabelSeq[i] : i \in 1..Len(LabelSeq) }

\* re: Response [A-Z]
IsLabel(t) == t \in Labels
\* re: \d
IsDigit(t) == t \in {"1", "2", "3"}
\* re: \.
IsDot(t) == t = "."
\* re: \s
IsSpace(t) == t = " "

\* the lexemes ParseSpec builds texts from
Alphabet == {Marker, "Response A", "Response B", "1", ".", " ", "x"}

----------------------------------------------------------------------------
(* parse_ranking_from_text, council.py:287-310 *)

\* "FINAL RANKING:" in ranking_text
HasMarker(s) == \E i \in 1..Len(s) : s[i] = Marker

\* index of the first sep in s at or after i, 0 when there is none
RECURSIVE FindFrom(_, _, _)
FindFrom(s, sep, i) ==
    IF i > Len(s) THEN 0
    ELSE IF s[i] = sep THEN i
    ELSE FindFrom(s, sep, i + 1)

\* str.split(sep): the pieces between the occurrences of sep, all of them
RECURSIVE Split(_, _)
Split(s, sep) ==
    LET k == FindFrom(s, sep, 1)
    IN  IF k = 0 THEN << s >>
        ELSE << SubSeq(s, 1, k - 1) >> \o Split(SubSeq(s, k + 1, Len(s)), sep)

\* first index at or after i whose lexeme does not satisfy the class
RECURSIVE SkipDigits(_, _)
SkipDigits(s, i) ==
    IF i <= Len(s) /\ IsDigit(s[i]) THEN SkipDigits(s, i + 1) ELSE i

RECURSIVE SkipSpaces(_, _)
SkipSpaces(s, i) ==
    IF i <= Len(s) /\ IsSpace(s[i]) THEN SkipSpaces(s, i + 1) ELSE i

\* re.match of  \d+\.\s*Response [A-Z]  at index i: the index the match ends
\* at, 0 when there is no match at i
NumberedMatchEnd(s, i) ==
    LET j == SkipDigits(s, i)
    IN  IF j = i \/ j > Len(s) \/ ~IsDot(s[j]) THEN 0
        ELSE LET k == SkipSpaces(s, j + 1)
             IN  IF k <= Len(s) /\ IsLabel(s[k]) THEN k ELSE 0

\* re.findall(r'\d+\.\s*Response [A-Z]', s): the matched substrings, scanning
\* left to right from index i without overlap
RECURSIVE FindAllNumbered(_, _)
FindAllNumbered(s, i) ==
    IF i > Len(s) THEN << >>
    ELSE LET e == NumberedMatchEnd(s, i)
         IN  IF e = 0 THEN FindAllNumbered(s, i + 1)
             ELSE << SubSeq(s, i, e) >> \o FindAllNumbered(s, e + 1)

\* re.findall(r'Response [A-Z]', s)
FindAllLabels(s) == SelectSeq(s, IsLabel)

\* re.search(r'Response [A-Z]', m).group(): the first label inside a match
SearchLabelWrong(m) == m[1]
SearchLabel(m) == FindAllLabels(m)[1]

ExtractLabels(ms) == [ i \in 1..Len(ms) |-> SearchLabel(ms[i]) ]

\* parts[1] of ranking_text.split("FINAL RANKING:")
RankingSection(s) == Split(s, Marker)[2]

\* the branch taken once the marker is found and len(parts) >= 2
ParseSectionBareFirst(section) ==
    IF FindAllLabels(section) # << >> THEN FindAllLabels(section)
    ELSE ExtractLabels(FindAllNumbered(section, 1))
ParseSection(section) ==
    LET numbered_matches == FindAllNumbered(section, 1)
    IN  IF numbered_matches # << >> THEN ExtractLabels(numbered_matches)
        ELSE FindAllLabels(section)

parse_ranking_from_text(ranking_text) ==
    IF HasMarker(ranking_text) /\ Len(Split(ranking_text, Marker)) >= 2
    THEN ParseSection(RankingSection(ranking_text))
    ELSE FindAllLabels(ranking_text)

----------------------------------------------------------------------------
(* Stage 2 labels, council.py:157-164 *)

\* [chr(65 + i) for i in range(len(results))], as "Response <chr>"
StageTwoLabelsFromB(results) ==
    [ i \in 1..Len(results) |-> LabelSeq[i + 1] ]
StageTwoLabels(results) ==
    [ i \in 1..Len(results) |-> LabelSeq[i] ]

\* {f"Response {label}": result['model'] for label, result in zip(...)}: a
\* later pair with the same key replaces an earlier one
LabelToModel(results) ==
    LET labels == StageTwoLabels(results)
        n == Len(results)
    IN  [ lab \in { labels[i] : i \in 1..n } |->
            LET last == CHOOSE i \in 1..n :
                           /\ labels[i] = lab
                           /\ \A j \in 1..n : labels[j] = lab => j <= i
            IN  results[last].model ]

----------------------------------------------------------------------------
(* calculate_aggregate_rankings, council.py:313-348 *)

\* model_positions[model_name].append(position) on a defaultdict(list); the
\* dict is held as the sequence of its items in insertion order
RecordPosition(model_positions, model_name, position) ==
    IF \E i \in 1..Len(model_positions) : model_positions[i].model = model_name
    THEN LET i == CHOOSE k \in 1..Len(model_positions) :
                     model_positions[k].model = model_name
         IN  [ model_positions EXCEPT
                 ![i].positions = Append(@, position) ]
    ELSE Append(model_positions,
                [ model |-> model_name, positions |-> << position >> ])

\* positions counted over the labels the map knows only
RECURSIVE WalkRankingRenumbered(_, _, _, _)
WalkRankingRenumbered(model_positions, parsed_ranking, position, l2m) ==
    IF parsed_ranking = << >> THEN model_positions
    ELSE IF parsed_ranking[1] \in DOMAIN l2m
    THEN WalkRankingRenumbered(
             RecordPosition(model_positions, l2m[parsed_ranking[1]], position),
             Tail(parsed_ranking), position + 1, l2m)
    ELSE WalkRankingRenumbered(model_positions, Tail(parsed_ranking),
                               position, l2m)

\* for position, label in enumerate(parsed_ranking, start=1)
RECURSIVE WalkRanking(_, _, _, _)
WalkRanking(model_positions, parsed_ranking, position, l2m) ==
    IF position > Len(parsed_ranking) THEN model_positions
    ELSE LET label == parsed_ranking[position]
         IN  WalkRanking(
                 IF label \in DOMAIN l2m
                 THEN RecordPosition(model_positions, l2m[label], position)
                 ELSE model_positions,
                 parsed_ranking, position + 1, l2m)

\* for ranking in rankings: the raw text is parsed again
RECURSIVE WalkRankers(_, _, _, _)
WalkRankers(model_positions, rankings, r, l2m) ==
    IF r > Len(rankings) THEN model_positions
    ELSE WalkRankers(
             WalkRanking(model_positions,
                         parse_ranking_from_text(rankings[r].ranking),
                         1, l2m),
             rankings, r + 1, l2m)

RECURSIVE SumSeq(_)
SumSeq(q) == IF q = << >> THEN 0 ELSE q[1] + SumSeq(Tail(q))

\* round(sum / n, 2) in hundredths: the nearest hundredth, an exact half
\* going to the even one (what the float arithmetic gives for n < 40)
RoundHundredthsDown(sum, n) == (100 * sum) \div n
RoundHundredths(sum, n) ==
    LET q == (100 * sum) \div n
        r == (100 * sum) % n
    IN  IF 2 * r < n THEN q
        ELSE IF 2 * r > n THEN q + 1
        ELSE IF q % 2 = 0 THEN q ELSE q + 1

\* the aggregate list before it is sorted
AggregateEntries(model_positions) ==
    [ i \in 1..Len(model_positions) |->
        [ model |-> model_positions[i].model,
          average_rank |-> RoundHundredths(SumSeq(model_positions[i].positions),
                                           Len(model_positions[i].positions)),
          rankings_count |-> Len(model_positions[i].positions) ] ]

\* list.sort(key=average_rank): stable, ascending
InsertByAverageRank(sorted, e) ==
    LET k == Cardinality({ i \in 1..Len(sorted) :
                             sorted[i].average_rank <= e.average_rank })
    IN  SubSeq(sorted, 1, k) \o << e >> \o SubSeq(sorted, k + 1, Len(sorted))

RECURSIVE SortDescending(_)
SortDescending(aggregate) ==
    IF aggregate = << >> THEN << >>
    ELSE LET rest == SortDescending(SubSeq(aggregate, 1, Len(aggregate) - 1))
             e == aggregate[Len(aggregate)]
             k == Cardinality({ i \in 1..Len(rest) :
                                  rest[i].average_rank >= e.average_rank })
         IN  SubSeq(rest, 1, k) \o << e >> \o SubSeq(rest, k + 1, Len(rest))

RECURSIVE SortByAverageRank(_)
SortByAverageRank(aggregate) ==
    IF aggregate = << >> THEN << >>
    ELSE InsertByAverageRank(
             SortByAverageRank(SubSeq(aggregate, 1, Len(aggregate) - 1)),
             aggregate[Len(aggregate)])

calculate_aggregate_rankings(rankings, l2m) ==
    SortByAverageRank(
        AggregateEntries(WalkRankers(<< >>, rankings, 1, l2m)))

----------------------------------------------------------------------------
(* Configuration, config.py *)

\* config.py:18-21
COUNCIL_MODELS == << "openai/gpt-5", "google/gemini-3-pro-preview" >>
\* config.py:24
CHAIRMAN_MODEL == "google/gemini-3-pro-preview"
\* council.py:363
TITLE_MODEL == "google/gemini-2.5-flash"

Council == 1..Len(COUNCIL_MODELS)

----------------------------------------------------------------------------
(* Provider adapters and the router, llm_client.py *)

\* message content: a text, or None (a JSON null)
TextContent(t) == [ null |-> FALSE, text |-> t ]
NoneContent == [ null |-> TRUE, text |-> << >> ]

\* what an adapter returns: None, or a dict with 'content'
Failure == [ ok |-> FALSE, content |-> NoneContent ]
Success(c) == [ ok |-> TRUE, content |-> c ]

\* how the one outbound call of an adapter can end
OpenAIOutcomes ==
    { "transport_error", "http_status_error", "malformed_body",
      "content_text", "content_null" }
GeminiOutcomes ==
    { "transport_error", "http_status_error", "malformed_body",
      "no_candidates", "content_text" }

\* llm_client.py:31-53: message.get('content') may be None
query_openai(call_outcome, t) ==
    IF call_outcome = "content_text" THEN Success(TextContent(t))
    ELSE IF call_outcome = "content_null" THEN Success(NoneContent)
    ELSE Failure

\* llm_client.py:132-157: ''.join(text_parts) is always a string
query_gemini(call_outcome, t) ==
    IF call_outcome = "content_text" THEN Success(TextContent(t))
    ELSE Failure

\* model.startswith("openai/") / model.startswith("google/")
Provider(model) ==
    IF model \in { "openai/gpt-5", "openai/gpt-4.1" } THEN "openai"
    ELSE IF model \in { "google/gemini-3-pro-preview", "google/gemini-2.5-flash" }
         THEN "google"
    ELSE "unknown"

CallOutcomes(model) ==
    IF Provider(model) = "openai" THEN OpenAIOutcomes
    ELSE IF Provider(model) = "google" THEN GeminiOutcomes
    ELSE { "not_called" }

\* llm_client.py:160-176
query_model(model, call_outcome, t) ==
    IF Provider(model) = "openai" THEN query_openai(call_outcome, t)
    ELSE IF Provider(model) = "google" THEN query_gemini(call_outcome, t)
    ELSE Failure

\* a mapping that keeps the value inserted first
query_models_parallel_first(models, responses) ==
    LET firsts == { i \in 1..Len(models) :
                      \A j \in 1..Len(models) : models[j] = models[i] => i <= j }
        RECURSIVE Items(_)
        Items(i) ==
            IF i > Len(models) THEN << >>
            ELSE (IF i \in firsts
                  THEN << [ model |-> models[i], response |-> responses[i] ] >>
                  ELSE << >>) \o Items(i + 1)
    IN  Items(1)

\* llm_client.py:195: {model: response for model, response in zip(...)}, the
\* dict held as the sequence of its items: a key stands where it was first
\* inserted and holds the value inserted last
query_models_parallel(models, responses) ==
    LET firsts == { i \in 1..Len(models) :
                      \A j \in 1..Len(models) : models[j] = models[i] => i <= j }
        lastOf(i) == CHOOSE j \in 1..Len(models) :
                        /\ models[j] = models[i]
                        /\ \A k \in 1..Len(models) : models[k] = models[i] => k <= j
        RECURSIVE Items(_)
        Items(i) ==
            IF i > Len(models) THEN << >>
            ELSE (IF i \in firsts
                  THEN << [ model |-> models[i], response |-> responses[lastOf(i)] ] >>
                  ELSE << >>) \o Items(i + 1)
    IN  Items(1)

\* a query: not issued, in flight, or settled with its response
IdleQuery == [ st |-> "idle", resp |-> Failure ]
PendingQuery == [ st |-> "pending", resp |-> Failure ]
SettledQuery(response) == [ st |-> "settled", resp |-> response ]

Responses(q) == [ i \in DOMAIN q |-> q[i].resp ]
\* asyncio.gather returns when every task is done, llm_client.py:192
SomeSettled(q) == \E i \in DOMAIN q : q[i].st = "settled"
AllSettled(q) == \A i \in DOMAIN q : q[i].st = "settled"

----------------------------------------------------------------------------
(* The stages, council.py *)

\* the texts a model answers with
AnswerText == << "x" >>
UserQuery == << "q" >>
\* the raw ranking texts a ranker answers with in Spec
Stage2Texts ==
    { << "x", Marker, " ", "1", ".", " ", "Response B", " ",
         "2", ".", " ", "Response A" >>,
      << "Response A", "x" >>,
      << "x" >> }

\* council.py:92-116: a user turn keeps its content, an assistant turn is its
\* Stage 3 response, or a placeholder when that is None or empty
HistoryPlaceholder == << "[Error: No response found in history]" >>
\* council.py:107-112 without the fallback: the stored response as it is
StoredResponse(msg) == msg.stage3.response
\* council.py:107-112: msg.get('stage3', {}).get('response', ''), replaced
\* by the placeholder when it is falsy
AssistantContent(msg) ==
    IF msg.stage3.response.null \/ msg.stage3.response.text = << >>
    THEN TextContent(HistoryPlaceholder)
    ELSE msg.stage3.response
\* council.py:96-114: a message of another role adds nothing
RECURSIVE build_chat_history(_)
build_chat_history(h) ==
    IF h = << >> THEN << >>
    ELSE (IF h[1].role = "user"
          THEN << [ role |-> "user", content |-> TextContent(h[1].content) ] >>
          ELSE IF h[1].role = "assistant"
          THEN << [ role |-> "assistant", content |-> AssistantContent(h[1]) ] >>
          ELSE << >>) \o build_chat_history(Tail(h))

\* the history read after the user message was stored, then the message
Stage1MessagesAfterStore(user_query, h) ==
    Append(Append(build_chat_history(h),
                  [ role |-> "user", content |-> TextContent(user_query) ]),
           [ role |-> "user", content |-> TextContent(user_query) ])
\* council.py:127-132: the history, then the current message
Stage1Messages(user_query, h) ==
    Append(build_chat_history(h),
           [ role |-> "user", content |-> TextContent(user_query) ])

\* council.py:385-397, main.py:195: "Previous messages: <len(history)>", or
\* "" for an empty history; held as the number
HistoryContext(h) == Len(h)

\* council.py:166-205: the question, the context and every Stage 1 response
\* under its label; the fixed instructions are left out
RankingPrompt(user_query, results, history_context) ==
    [ question |-> user_query,
      context |-> history_context,
      responses |-> [ i \in 1..Len(results) |->
                        [ label |-> StageTwoLabels(results)[i],
                          response |-> results[i].response ] ] ]

\* council.py:205
Stage2Messages(user_query, results, history_context) ==
    << [ role |-> "user",
         content |-> RankingPrompt(user_query, results, history_context) ] >>

\* council.py:138-144: failed models get no entry
Stage1FormatWithPlaceholders(items) ==
    [ i \in 1..Len(items) |->
        [ model |-> items[i].model, response |-> items[i].response.content ] ]
RECURSIVE Stage1Format(_)
Stage1Format(items) ==
    IF items = << >> THEN << >>
    ELSE (IF items[1].response.ok
          THEN << [ model |-> items[1].model,
                    response |-> items[1].response.content ] >>
          ELSE << >>) \o Stage1Format(Tail(items))

\* council.py:216-217: parse_ranking_from_text(None) raises TypeError at
\* '"FINAL RANKING:" in ranking_text'
Stage2Raises(items) ==
    \E i \in 1..Len(items) : items[i].response.ok /\ items[i].response.content.null

\* council.py:213-222: failed models get no entry
Stage2FormatWithPlaceholders(items) ==
    [ i \in 1..Len(items) |->
        [ model |-> items[i].model,
          ranking |-> items[i].response.content.text,
          parsed_ranking |->
              parse_ranking_from_text(items[i].response.content.text) ] ]
RECURSIVE Stage2Format(_)
Stage2Format(items) ==
    IF items = << >> THEN << >>
    ELSE (IF items[1].response.ok
          THEN << [ model |-> items[1].model,
                    ranking |-> items[1].response.content.text,
                    parsed_ranking |->
                        parse_ranking_from_text(items[1].response.content.text) ] >>
          ELSE << >>) \o Stage2Format(Tail(items))

\* council.py:275-284
SynthesisError == << "Error: Unable to generate final synthesis." >>
stage3_synthesize_unchecked(response) ==
    [ model |-> CHAIRMAN_MODEL, response |-> response.content ]
stage3_synthesize_final(response) ==
    IF ~response.ok
    THEN [ model |-> CHAIRMAN_MODEL, response |-> TextContent(SynthesisError) ]
    ELSE [ model |-> CHAIRMAN_MODEL, response |-> response.content ]

\* council.py:389-393
AllFailedError == << "All models failed to respond. Please try again." >>
AllFailedResult == [ model |-> "error", response |-> TextContent(AllFailedError) ]
ShortCircuitNever(results) == FALSE
\* a return as soon as one council model failed
ShortCircuitOnAnyFailure(results) == Len(results) < Len(COUNCIL_MODELS)
ShortCircuit(results) == results = << >>

EmptyMetadata ==
    [ empty |-> TRUE, label_to_model |-> << >>, aggregate_rankings |-> << >> ]
\* council.py:412-415
Metadata(l2m, agg) ==
    [ empty |-> FALSE, label_to_model |-> l2m, aggregate_rankings |-> agg ]

NoResult == [ model |-> "", response |-> NoneContent ]

\* council.py:365-373: the title as its length; len(title) > 50 is cut to
\* title[:47] + "..."
TitleLimit == 50
TitleKeep == 47
EllipsisLen == 3
FallbackTitle == [ fallback |-> TRUE, len |-> 16 ]
NoTitle == [ fallback |-> FALSE, len |-> 0 ]
\* the lengths of the titles the title model answers with
\* the titles the title model answers with, and their lengths
ShortTitleText == << "a short title" >>
LongTitleText == << "a title that is longer than the fifty characters kept" >>
TitleTexts == { ShortTitleText, LongTitleText }
TitleLength(t) == IF t = LongTitleText THEN 53 ELSE 13
generate_conversation_title_uncut(response) ==
    IF ~response.ok THEN FallbackTitle
    ELSE [ fallback |-> FALSE, len |-> TitleLength(response.content.text) ]
generate_conversation_title(response) ==
    IF ~response.ok THEN FallbackTitle
    ELSE LET n == TitleLength(response.content.text)
         IN  [ fallback |-> FALSE,
               len |-> IF n > TitleLimit THEN TitleKeep + EllipsisLen ELSE n ]

----------------------------------------------------------------------------
(* The conversation store, supabase_storage.py *)

UserMessage == [ role |-> "user", content |-> UserQuery ]
\* supabase_storage.py:197-202
AssistantMessage(s1, s2, s3) ==
    [ role |-> "assistant", stage1 |-> s1, stage2 |-> s2, stage3 |-> s3 ]

\* an earlier, completed turn of the conversation
PriorTurn ==
    << UserMessage,
       AssistantMessage(
           << [ model |-> COUNCIL_MODELS[1], response |-> TextContent(AnswerText) ] >>,
           << >>,
           [ model |-> CHAIRMAN_MODEL, response |-> TextContent(AnswerText) ]) >>

\* supabase_storage.py:30-36
NewConversation == [ exists |-> TRUE, messages |-> << >>, title |-> FallbackTitle ]

\* supabase_storage.py:148-174 and 177-205, the conversation being found
AppendMessage(conversation, message) ==
    [ conversation EXCEPT !.messages = Append(@, message) ]

\* how the table answers the PATCH: a 200/204, or any other status
PatchStatuses == { "applied", "rejected" }

\* supabase_storage.py:75-92: the PATCH replaces title and messages of the
\* row by those of the dict; another status is printed and nothing changes
save_conversation_merging(row, conversation, status) ==
    IF status = "applied" /\ row.exists
    THEN [ row EXCEPT !.title = conversation.title,
                      !.messages = Append(@, conversation.messages[
                                                 Len(conversation.messages)]) ]
    ELSE row
save_conversation(row, conversation, status) ==
    IF status = "applied" /\ row.exists
    THEN [ row EXCEPT !.title = conversation.title,
                      !.messages = conversation.messages ]
    ELSE row

\* a deleted conversation: get_conversation returns None
NoConversation == [ exists |-> FALSE, messages |-> << >>, title |-> NoTitle ]

\* supabase_storage.py:53-72: a dict when the row exists, else None; held
\* as whether a dict came back
get_conversation_unchecked(conversation) == TRUE
get_conversation(conversation) == conversation.exists

\* supabase_storage.py:208-223: a PATCH of the title alone; one that matches
\* no row changes nothing, another status is printed and nothing changes
update_conversation_title(conversation, t, status) ==
    IF status = "applied" /\ conversation.exists
    THEN [ conversation EXCEPT !.title = t ]
    ELSE conversation

----------------------------------------------------------------------------
(* The request handlers, main.py *)

\* the events of one incremental request, main.py:187-226
Stage1Start == << "stage1_start" >>
Stage1Yields == << "stage1_complete", "stage2_start" >>
Stage2YieldsSwapped == << "stage3_start", "stage2_complete" >>
Stage2Yields == << "stage2_complete", "stage3_start" >>
Stage3Yields == << "stage3_complete" >>
TitleYields == << "title_complete" >>
CompleteYields == << "complete" >>
ErrorYields == << "error" >>

NothingSent ==
    [ s1 |-> [ i \in Council |-> << >> ], s2 |-> [ i \in Council |-> << >> ] ]

ZeroCalls ==
    [ s1 |-> [ i \in Council |-> 0 ], s2 |-> [ i \in Council |-> 0 ],
      s3 |-> 0, title |-> 0 ]

PipeIdle ==
    /\ store = NewConversation
    /\ path = "none"
    /\ pc = "off"
    /\ history = << >>
    /\ is_first_message = FALSE
    /\ q1 = [ i \in Council |-> IdleQuery ]
    /\ q2 = [ i \in Council |-> IdleQuery ]
    /\ q3 = IdleQuery
    /\ qt = IdleQuery
    /\ calls = ZeroCalls
    /\ sent = NothingSent
    /\ stage1_results = << >>
    /\ stage2_results = << >>
    /\ label_to_model = << >>
    /\ aggregate_rankings = << >>
    /\ stage3_result = NoResult
    /\ metadata = EmptyMetadata
    /\ council = "none"
    /\ outcome = "none"
    /\ events = << >>
    /\ title = NoTitle

ParseIdle ==
    /\ text = << >>
    /\ parsed = << >>
    /\ ppc = "off"

AggIdle ==
    /\ a_stage1 = << >>
    /\ a_stage2 = << >>
    /\ a_label_to_model = << >>
    /\ a_aggregate = << >>
    /\ apc = "off"

RouterIdle ==
    /\ r_models = << >>
    /\ r_tasks = << >>
    /\ r_result = << >>
    /\ rpc = "off"

StoreIdle ==
    /\ w_base = NoConversation
    /\ w_row = NoConversation
    /\ w_call = << >>
    /\ w_conv = << >>
    /\ w_log = << >>
    /\ wpc = << >>

HistoryIdle ==
    /\ h_history = << >>
    /\ h_messages = << >>
    /\ hpc = "off"

Init ==
    /\ store \in { NewConversation, [ NewConversation EXCEPT !.messages = PriorTurn ] }
    /\ path = "none"
    /\ pc = "idle"
    /\ history = << >>
    /\ is_first_message = FALSE
    /\ q1 = [ i \in Council |-> IdleQuery ]
    /\ q2 = [ i \in Council |-> IdleQuery ]
    /\ q3 = IdleQuery
    /\ qt = IdleQuery
    /\ calls = ZeroCalls
    /\ sent = NothingSent
    /\ stage1_results = << >>
    /\ stage2_results = << >>
    /\ label_to_model = << >>
    /\ aggregate_rankings = << >>
    /\ stage3_result = NoResult
    /\ metadata = EmptyMetadata
    /\ council = "none"
    /\ outcome = "none"
    /\ events = << >>
    /\ title = NoTitle
    /\ ParseIdle
    /\ AggIdle
    /\ RouterIdle
    /\ StoreIdle
    /\ HistoryIdle


IssueStage1SkippingChairman(c) ==
    [ c EXCEPT !.s1 = [ i \in Council |->
                          IF COUNCIL_MODELS[i] = CHAIRMAN_MODEL THEN @[i]
                          ELSE @[i] + 1 ] ]
IssueStage1(c) == [ c EXCEPT !.s1 = [ i \in Council |-> @[i] + 1 ] ]
IssueStage2OnlySucceeded(c) ==
    [ c EXCEPT !.s2 = [ i \in Council |-> IF q1[i].resp.ok THEN @[i] + 1 ELSE @[i] ] ]
IssueStage2(c) == [ c EXCEPT !.s2 = [ i \in Council |-> @[i] + 1 ] ]
IssueStage3(c) == [ c EXCEPT !.s3 = @ + 1 ]
IssueTitle(c) == [ c EXCEPT !.title = @ + 1 ]
AllPending == [ i \in Council |-> PendingQuery ]

\* llm_client.py:191: every task of a stage is created with the same messages
SendStage1(m, messages) == [ m EXCEPT !.s1 = [ i \in Council |-> messages ] ]
SendStage2(m, messages) == [ m EXCEPT !.s2 = [ i \in Council |-> messages ] ]

stagevars == <<stage1_results, stage2_results, label_to_model,
               aggregate_rankings, stage3_result, metadata>>

\* main.py:109-114, 163-168: the conversation is looked up
SendMessage ==
    /\ pc = "idle"
    /\ \E p \in { "batch", "stream" } : path' = p
    /\ IF ~get_conversation(store)
       THEN /\ outcome' = "http404"
            /\ pc' = "done"
            /\ UNCHANGED <<history, is_first_message>>
       ELSE /\ history' = store.messages
            /\ is_first_message' = (Len(store.messages) = 0)
            /\ pc' = "add_user"
            /\ UNCHANGED outcome
    /\ UNCHANGED <<store, q1, q2, q3, qt, calls, sent, council, events, title>>
    /\ UNCHANGED <<stagevars, pvars, avars, rvars, wvars, hvars>>

\* main.py:116-133 (batch) and 176-188 (incremental): the user message is
\* stored, then the first queries are issued
AddUserMessage ==
    /\ pc = "add_user"
    /\ IF ~store.exists
       THEN \* add_user_message raises ValueError
            /\ pc' = "done"
            /\ outcome' = IF path = "batch" THEN "raised" ELSE "streamed"
            /\ events' = IF path = "batch" THEN events ELSE events \o ErrorYields
            /\ UNCHANGED <<store, q1, qt, calls, sent, council>>
       ELSE /\ \E status \in PatchStatuses :
                  store' = save_conversation(
                               store, AppendMessage(store, UserMessage), status)
            /\ UNCHANGED outcome
            /\ IF path = "batch" /\ is_first_message
               THEN \* await generate_conversation_title(...)
                    /\ qt' = PendingQuery
                    /\ calls' = IssueTitle(calls)
                    /\ pc' = "title_wait"
                    /\ UNCHANGED <<q1, sent, council, events>>
               ELSE /\ qt' = IF is_first_message THEN PendingQuery ELSE qt
                    /\ q1' = AllPending
                    /\ sent' = SendStage1(sent, Stage1Messages(UserQuery, history))
                    /\ calls' = IF is_first_message
                                THEN IssueStage1(IssueTitle(calls))
                                ELSE IssueStage1(calls)
                    /\ council' = IF path = "batch" THEN "running" ELSE council
                    /\ events' = IF path = "batch" THEN events
                                 ELSE events \o Stage1Start
                    /\ pc' = "s1_wait"
    /\ UNCHANGED <<path, history, is_first_message, q2, q3, title>>
    /\ UNCHANGED <<stagevars, pvars, avars, rvars, wvars, hvars>>

\* the title query settles
SettleTitle ==
    /\ qt.st = "pending"
    /\ \E o \in CallOutcomes(TITLE_MODEL), t \in TitleTexts :
          qt' = SettledQuery(query_model(TITLE_MODEL, o, t))
    /\ UNCHANGED <<store, path, pc, history, is_first_message, q1, q2, q3, calls, sent,
                   council, outcome, events, title>>
    /\ UNCHANGED <<stagevars, pvars, avars, rvars, wvars, hvars>>

\* main.py:129-133: the title is stored and run_full_council starts
BatchTitleDone ==
    /\ path = "batch"
    /\ pc = "title_wait"
    /\ qt.st = "settled"
    /\ title' = generate_conversation_title(qt.resp)
    /\ \E status \in PatchStatuses :
          store' = update_conversation_title(store, title', status)
    /\ q1' = AllPending
    /\ sent' = SendStage1(sent, Stage1Messages(UserQuery, history))
    /\ calls' = IssueStage1(calls)
    /\ council' = "running"
    /\ pc' = "s1_wait"
    /\ UNCHANGED <<path, history, is_first_message, q2, q3, qt, outcome, events>>
    /\ UNCHANGED <<stagevars, pvars, avars, rvars, wvars, hvars>>

\* one Stage 1 query settles
Settle1 ==
    /\ \E i \in Council :
          /\ q1[i].st = "pending"
          /\ \E o \in CallOutcomes(COUNCIL_MODELS[i]) :
                q1' = [ q1 EXCEPT ![i] =
                          SettledQuery(query_model(COUNCIL_MODELS[i], o, AnswerText)) ]
    /\ UNCHANGED <<store, path, pc, history, is_first_message, q2, q3, qt, calls, sent,
                   council, outcome, events, title>>
    /\ UNCHANGED <<stagevars, pvars, avars, rvars, wvars, hvars>>

\* main.py:140-145 after run_full_council returned: the assistant message is
\* stored, or add_assistant_message raises ValueError
BatchFinish(s1, s2, s3) ==
    /\ \E status \in PatchStatuses :
          store' = IF store.exists
                   THEN save_conversation(
                            store,
                            AppendMessage(store, AssistantMessage(s1, s2, s3)),
                            status)
                   ELSE store
    /\ outcome' = IF store.exists THEN "returned" ELSE "raised"
    /\ pc' = "done"

\* main.py:218-232: the assistant message is stored and complete is sent, or
\* add_assistant_message raises and error is sent
StreamFinish(conversation, emitted, s1, s2, s3) ==
    /\ \E status \in PatchStatuses :
          store' = IF conversation.exists
                   THEN save_conversation(
                            conversation,
                            AppendMessage(conversation,
                                          AssistantMessage(s1, s2, s3)),
                            status)
                   ELSE conversation
    /\ events' = IF conversation.exists THEN emitted \o CompleteYields
                 ELSE emitted \o ErrorYields
    /\ outcome' = "streamed"
    /\ pc' = "done"

\* council.py:135-146, then council.py:389-398 (batch) or main.py:189-197
\* (incremental): gather has returned, the results are formatted, and Stage 2
\* is issued unless run_full_council returns early
Stage1Collect ==
    /\ pc = "s1_wait"
    /\ AllSettled(q1)
    /\ LET results == Stage1Format(query_models_parallel(COUNCIL_MODELS, Responses(q1)))
       IN  /\ stage1_results' = results
           /\ IF path = "batch" /\ ShortCircuit(results)
              THEN /\ stage2_results' = << >>
                   /\ stage3_result' = AllFailedResult
                   /\ metadata' = EmptyMetadata
                   /\ council' = "returned"
                   /\ BatchFinish(<< >>, << >>, AllFailedResult)
                   /\ UNCHANGED <<q2, calls, sent, label_to_model, events>>
              ELSE /\ label_to_model' = LabelToModel(results)
                   /\ q2' = AllPending
                   /\ sent' = SendStage2(sent,
                                 Stage2Messages(UserQuery, results,
                                                HistoryContext(history)))
                   /\ calls' = IssueStage2(calls)
                   /\ events' = IF path = "batch" THEN events
                                ELSE events \o Stage1Yields
                   /\ pc' = "s2_wait"
                   /\ UNCHANGED <<store, stage2_results, stage3_result, metadata,
                                  council, outcome>>
    /\ UNCHANGED <<path, history, is_first_message, q1, q3, qt,
                   aggregate_rankings, title>>
    /\ UNCHANGED <<pvars, avars, rvars, wvars, hvars>>

\* one Stage 2 query settles
Settle2 ==
    /\ \E i \in Council :
          /\ q2[i].st = "pending"
          /\ \E o \in CallOutcomes(COUNCIL_MODELS[i]), t \in Stage2Texts :
                q2' = [ q2 EXCEPT ![i] =
                          SettledQuery(query_model(COUNCIL_MODELS[i], o, t)) ]
    /\ UNCHANGED <<store, path, pc, history, is_first_message, q1, q3, qt, calls, sent,
                   council, outcome, events, title>>
    /\ UNCHANGED <<stagevars, pvars, avars, rvars, wvars, hvars>>

\* council.py:210-224, then council.py:401-404 or main.py:198-205: the
\* rankings are parsed and aggregated and the chairman is queried, unless
\* parsing raised
Stage2Collect ==
    /\ pc = "s2_wait"
    /\ AllSettled(q2)
    /\ LET items == query_models_parallel(COUNCIL_MODELS, Responses(q2))
       IN  IF Stage2Raises(items)
           THEN /\ pc' = "done"
                /\ council' = IF path = "batch" THEN "raised" ELSE council
                /\ outcome' = IF path = "batch" THEN "raised" ELSE "streamed"
                /\ events' = IF path = "batch" THEN events ELSE events \o ErrorYields
                /\ UNCHANGED <<stage2_results, aggregate_rankings, q3, calls, sent>>
           ELSE /\ stage2_results' = Stage2Format(items)
                /\ aggregate_rankings' =
                       calculate_aggregate_rankings(Stage2Format(items),
                                                    label_to_model)
                /\ q3' = PendingQuery
                /\ calls' = IssueStage3(calls)
                /\ events' = IF path = "batch" THEN events
                             ELSE events \o Stage2Yields
                /\ pc' = "s3_wait"
                /\ UNCHANGED <<sent, council, outcome>>
    /\ UNCHANGED <<store, path, history, is_first_message, q1, q2, qt,
                   stage1_results, label_to_model, stage3_result, metadata, title>>
    /\ UNCHANGED <<pvars, avars, rvars, wvars, hvars>>

\* the chairman query settles
Settle3 ==
    /\ q3.st = "pending"
    /\ \E o \in CallOutcomes(CHAIRMAN_MODEL) :
          q3' = SettledQuery(query_model(CHAIRMAN_MODEL, o, AnswerText))
    /\ UNCHANGED <<store, path, pc, history, is_first_message, q1, q2, qt, calls, sent,
                   council, outcome, events, title>>
    /\ UNCHANGED <<stagevars, pvars, avars, rvars, wvars, hvars>>

\* council.py:273-284, then council.py:411-417 and main.py:140-153 (batch) or
\* main.py:206-226 (incremental, which first awaits a started title task)
Stage3Done ==
    /\ pc = "s3_wait"
    /\ q3.st = "settled"
    /\ LET result == stage3_synthesize_final(q3.resp)
       IN  /\ stage3_result' = result
           /\ IF path = "batch"
              THEN /\ metadata' = Metadata(label_to_model, aggregate_rankings)
                   /\ council' = "returned"
                   /\ BatchFinish(stage1_results, stage2_results, result)
                   /\ UNCHANGED events
              ELSE /\ UNCHANGED <<metadata, council>>
                   /\ IF is_first_message
                      THEN /\ events' = events \o Stage3Yields
                           /\ pc' = "title_wait"
                           /\ UNCHANGED <<store, outcome>>
                      ELSE StreamFinish(store, events \o Stage3Yields,
                                        stage1_results, stage2_results, result)
    /\ UNCHANGED <<path, history, is_first_message, q1, q2, q3, qt, calls, sent,
                   stage1_results, stage2_results, label_to_model,
                   aggregate_rankings, title>>
    /\ UNCHANGED <<pvars, avars, rvars, wvars, hvars>>

\* main.py:209-226: the title task is done
StreamTitleDone ==
    /\ path = "stream"
    /\ pc = "title_wait"
    /\ qt.st = "settled"
    /\ title' = generate_conversation_title(qt.resp)
    /\ \E title_status \in PatchStatuses :
          StreamFinish(update_conversation_title(store, title', title_status),
                       events \o TitleYields,
                       stage1_results, stage2_results, stage3_result)
    /\ UNCHANGED <<path, history, is_first_message, q1, q2, q3, qt, calls, sent, council>>
    /\ UNCHANGED <<stagevars, pvars, avars, rvars, wvars, hvars>>

\* main.py:84-90, supabase_storage.py:130-145: another client deletes the
\* conversation while the request is running
DeleteConversation ==
    /\ pc \notin { "off", "done" }
    /\ store.exists
    /\ store' = NoConversation
    /\ UNCHANGED <<path, pc, history, is_first_message, q1, q2, q3, qt, calls, sent,
                   council, outcome, events, title>>
    /\ UNCHANGED <<stagevars, pvars, avars, rvars, wvars, hvars>>

Next ==
    \/ SendMessage
    \/ AddUserMessage
    \/ SettleTitle
    \/ BatchTitleDone
    \/ Settle1
    \/ Stage1Collect
    \/ Settle2
    \/ Stage2Collect
    \/ Settle3
    \/ Stage3Done
    \/ StreamTitleDone
    \/ DeleteConversation

Spec == Init /\ [][Next]_vars

\* Stage2Collect as it shows on pc: it is the only action that leaves
\* "s2_wait", and whenever its guard holds it can be taken, to "done" when
\* parsing raised and to "s3_wait" otherwise
Stage2Advance ==
    /\ pc = "s2_wait"
    /\ AllSettled(q2)
    /\ pc' \in { "done", "s3_wait" }

\* the other steps of the request: the handler's code and the settling of
\* the model calls it awaits; the deletion by another client is not one
TurnStep ==
    \/ SendMessage
    \/ AddUserMessage
    \/ SettleTitle
    \/ BatchTitleDone
    \/ Settle1
    \/ Stage1Collect
    \/ Settle2
    \/ Settle3
    \/ Stage3Done
    \/ StreamTitleDone

\* the event loop runs a handler that can run, and every outbound call ends:
\* each adapter call has a timeout, llm_client.py:9, 56 and council.py:363
Fairness == WF_vars(TurnStep) /\ WF_pc(Stage2Advance)

LiveSpec == Init /\ [][Next]_vars /\ Fairness

----------------------------------------------------------------------------
(* ParseSpec: the parser applied to every text of at most MaxLen lexemes   *)
(* and to the sample texts.                                                *)

\* the example of the ranking prompt, council.py:196-203
PromptExample ==
    << "Response A", "x", "Response B", "x", "Response C", "x",
       Marker, " ", "1", ".", " ", "Response C", " ",
       "2", ".", " ", "Response A", " ", "3", ".", " ", "Response B" >>

\* a ranking that repeats the marker line before its list
RepeatedMarker ==
    << "x", Marker, " ", "x", Marker, " ", "1", ".", " ", "Response B", " ",
       "2", ".", " ", "Response A" >>

SampleTexts == { PromptExample, RepeatedMarker }

ParseInit ==
    /\ text \in {<< >>} \cup SampleTexts
    /\ parsed = << >>
    /\ ppc = "build"
    /\ AggIdle
    /\ PipeIdle
    /\ RouterIdle
    /\ StoreIdle
    /\ HistoryIdle

AppendLexeme ==
    /\ ppc = "build"
    /\ Len(text) < MaxLen
    /\ \E t \in Alphabet : text' = Append(text, t)
    /\ UNCHANGED <<parsed, ppc>>
    /\ UNCHANGED <<avars, svars, rvars, wvars, hvars>>

Parse ==
    /\ ppc = "build"
    /\ parsed' = parse_ranking_from_text(text)
    /\ ppc' = "parsed"
    /\ UNCHANGED text
    /\ UNCHANGED <<avars, svars, rvars, wvars, hvars>>

ParseNext == AppendLexeme \/ Parse

ParseSpec == ParseInit /\ [][ParseNext]_vars

----------------------------------------------------------------------------
(* AggSpec: Stage 2 labelling and the aggregator applied to every list of  *)
(* at most MaxResults Stage 1 results and at most MaxRankers rankings.     *)

\* COUNCIL_MODELS, config.py:18-21, and two more identifiers of the same form
ModelIdSeq ==
    << "openai/gpt-5", "google/gemini-3-pro-preview",
       "openai/gpt-4.1", "google/gemini-2.5-flash" >>
ModelIds == { ModelIdSeq[i] : i \in 1..3 }

\* the sequences over S of length at most n
RECURSIVE SeqsUpTo(_, _)
SeqsUpTo(S, n) ==
    IF n = 0 THEN { << >> }
    ELSE LET shorter == SeqsUpTo(S, n - 1)
         IN  shorter \cup { Append(q, x) : q \in shorter, x \in S }

IsInjective(q) == \A i, j \in 1..Len(q) : q[i] = q[j] => i = j

\* Stage 1 keeps one result per key of the router's mapping: distinct models
Stage1Lists ==
    { [ i \in 1..Len(ms) |-> [ model |-> ms[i], response |-> << "x" >> ] ] :
        ms \in { q \in SeqsUpTo(ModelIds, MaxResults) : IsInjective(q) } }

\* the end of a ranking that follows the prompt's format for two responses,
\* council.py:187-203: the marker, then the lines "1. Response B" and
\* "2. Response A"
RoundTripTail ==
    << Marker, " ", "1", ".", " ", "Response B", " ",
       "2", ".", " ", "Response A", " " >>
\* the prose before it: an evaluation that names a response, and one that
\* also quotes the marker
RoundTripProse ==
    { << "Response A", "x", " " >>,
      << "x", Marker, " ", "x", " " >> }
RoundTripTexts == { prose \o RoundTripTail : prose \in RoundTripProse }

\* the raw ranking texts of AggSpec: bare labels, parsed by the last
\* fallback, and the texts that end with a well-formed ranking
RankTexts ==
    SeqsUpTo({ "Response A", "Response B" }, MaxRankLen) \cup RoundTripTexts

AggInit ==
    /\ a_stage1 \in Stage1Lists
    /\ a_stage2 = << >>
    /\ a_label_to_model = << >>
    /\ a_aggregate = << >>
    /\ apc = "input"
    /\ ParseIdle
    /\ PipeIdle
    /\ RouterIdle
    /\ StoreIdle
    /\ HistoryIdle

\* council.py:157-164
Anonymize ==
    /\ apc = "input"
    /\ a_label_to_model' = LabelToModel(a_stage1)
    /\ apc' = "labelled"
    /\ UNCHANGED <<a_stage1, a_stage2, a_aggregate>>
    /\ UNCHANGED <<pvars, svars, rvars, wvars, hvars>>

\* council.py:214-222: one more ranker's entry
AddRanker ==
    /\ apc = "labelled"
    /\ Len(a_stage2) < MaxRankers
    /\ \E full_text \in RankTexts :
          a_stage2' = Append(a_stage2,
              [ model |-> ModelIdSeq[(Len(a_stage2) % Len(ModelIdSeq)) + 1],
                ranking |-> full_text,
                parsed_ranking |-> parse_ranking_from_text(full_text) ])
    /\ UNCHANGED <<a_stage1, a_label_to_model, a_aggregate, apc>>
    /\ UNCHANGED <<pvars, svars, rvars, wvars, hvars>>

\* council.py:401
Aggregate ==
    /\ apc = "labelled"
    /\ a_aggregate' = calculate_aggregate_rankings(a_stage2, a_label_to_model)
    /\ apc' = "aggregated"
    /\ UNCHANGED <<a_stage1, a_stage2, a_label_to_model>>
    /\ UNCHANGED <<pvars, svars, rvars, wvars, hvars>>

AggNext == Anonymize \/ AddRanker \/ Aggregate

AggSpec == AggInit /\ [][AggNext]_vars

----------------------------------------------------------------------------
(* RouterSpec: query_models_parallel applied to every list of at most      *)
(* MaxModels identifiers, each query_model task ending in every way its    *)
(* adapter's outbound call can end.                                        *)

\* the council models and an identifier with no recognized provider prefix
UnknownModel == "anthropic/claude-sonnet"
RouterIds == { COUNCIL_MODELS[1], COUNCIL_MODELS[2], UnknownModel }

\* llm_client.py:160-176: the adapter query_model awaits, "none" when the
\* prefix is not recognized
AdapterOfSwapped(model) ==
    IF Provider(model) = "openai" THEN "google"
    ELSE IF Provider(model) = "google" THEN "openai"
    ELSE "none"
AdapterOf(model) ==
    IF Provider(model) = "openai" THEN "openai"
    ELSE IF Provider(model) = "google" THEN "google"
    ELSE "none"

\* how the outbound call of an adapter can end
AdapterOutcomes(adapter) ==
    IF adapter = "openai" THEN OpenAIOutcomes
    ELSE IF adapter = "google" THEN GeminiOutcomes
    ELSE { }

\* what an adapter returns for the way its outbound call ended
AdapterResult(adapter, call_outcome, t) ==
    IF adapter = "openai" THEN query_openai(call_outcome, t)
    ELSE IF adapter = "google" THEN query_gemini(call_outcome, t)
    ELSE Failure

\* the coroutine query_model(model, messages) up to its first suspension:
\* the adapter has issued its one client.post, llm_client.py:32 and 134, or
\* the coroutine has returned None, llm_client.py:175-176
StartTask(model) ==
    IF AdapterOf(model) = "none"
    THEN [ st |-> "settled", adapter |-> "none", adapter_calls |-> 0,
           outbound |-> 0, outcome |-> "not_called",
           resp |-> Failure ]
    ELSE [ st |-> "awaiting", adapter |-> AdapterOf(model), adapter_calls |-> 1,
           outbound |-> 1, outcome |-> "in_flight",
           resp |-> Failure ]

\* the adapter's try block ends: every exception is caught and None returned
EndTask(task, call_outcome, t) ==
    [ task EXCEPT !.st = "settled",
                  !.outcome = call_outcome,
                  !.resp = AdapterResult(task.adapter, call_outcome, t) ]

RouterInit ==
    /\ r_models \in SeqsUpTo(RouterIds, MaxModels)
    /\ r_tasks = << >>
    /\ r_result = << >>
    /\ rpc = "input"
    /\ ParseIdle
    /\ AggIdle
    /\ PipeIdle
    /\ StoreIdle
    /\ HistoryIdle

\* llm_client.py:189-192: asyncio.gather schedules every task; each runs to
\* its first suspension before any response is handled
RouterStart ==
    /\ rpc = "input"
    /\ r_tasks' = [ i \in 1..Len(r_models) |-> StartTask(r_models[i]) ]
    /\ rpc' = "running"
    /\ UNCHANGED <<r_models, r_result>>
    /\ UNCHANGED <<svars, pvars, avars, wvars, hvars>>

\* the outbound call of one task ends, in any order among the tasks
RouterRespond ==
    /\ rpc = "running"
    /\ \E i \in 1..Len(r_tasks) :
          /\ r_tasks[i].st = "awaiting"
          /\ \E o \in AdapterOutcomes(r_tasks[i].adapter) :
                r_tasks' = [ r_tasks EXCEPT ![i] = EndTask(@, o, AnswerText) ]
    /\ UNCHANGED <<r_models, r_result, rpc>>
    /\ UNCHANGED <<svars, pvars, avars, wvars, hvars>>

\* llm_client.py:192-195: gather returns once every task is done
RouterReturn ==
    /\ rpc = "running"
    /\ \A i \in 1..Len(r_tasks) : r_tasks[i].st = "settled"
    /\ r_result' = query_models_parallel(r_models,
                        [ i \in 1..Len(r_tasks) |-> r_tasks[i].resp ])
    /\ rpc' = "returned"
    /\ UNCHANGED <<r_models, r_tasks>>
    /\ UNCHANGED <<svars, pvars, avars, wvars, hvars>>

RouterNext == RouterStart \/ RouterRespond \/ RouterReturn

RouterSpec == RouterInit /\ [][RouterNext]_vars

----------------------------------------------------------------------------
(* StoreSpec: two storage calls on the same conversation, each in its own  *)
(* request. The calls are synchronous (httpx.get, httpx.patch), so two     *)
(* requests served by different workers interleave at the table only.      *)

Writers == { 1, 2 }
StorageCalls == { "add_user_message", "add_assistant_message" }

\* what each writer appends: its own user message, or its own assistant
\* message, supabase_storage.py:160-170 and 197-202
WriterContent == << << "q1" >>, << "q2" >> >>
WriterAnswer == << << "a1" >>, << "a2" >> >>
WriterMessage(w, call) ==
    IF call = "add_user_message"
    THEN [ role |-> "user", content |-> WriterContent[w] ]
    ELSE AssistantMessage(
             << >>, << >>,
             [ model |-> CHAIRMAN_MODEL, response |-> TextContent(WriterAnswer[w]) ])

\* the rows the conversation can hold before the writers run
StoredRows ==
    { NoConversation, NewConversation,
      AppendMessage(NewConversation, UserMessage),
      [ NewConversation EXCEPT !.messages = PriorTurn ] }

StoreInit ==
    /\ w_base \in StoredRows
    /\ w_row = w_base
    /\ w_call \in [ Writers -> StorageCalls ]
    /\ w_conv = [ w \in Writers |-> NoConversation ]
    /\ w_log = << >>
    /\ wpc = [ w \in Writers |-> "start" ]
    /\ ParseIdle
    /\ AggIdle
    /\ PipeIdle
    /\ RouterIdle
    /\ HistoryIdle

\* supabase_storage.py:157-172 and 191-204: the row is read, a missing one
\* raises ValueError, and the message is appended to the dict that was read
StoreRead(w) ==
    /\ wpc[w] = "start"
    /\ w_log' = Append(w_log, << w, "read" >>)
    /\ IF ~get_conversation(w_row)
       THEN /\ wpc' = [ wpc EXCEPT ![w] = "raised" ]
            /\ UNCHANGED w_conv
       ELSE /\ w_conv' = [ w_conv EXCEPT ![w] =
                             AppendMessage(w_row, WriterMessage(w, w_call[w])) ]
            /\ wpc' = [ wpc EXCEPT ![w] = "read" ]
    /\ UNCHANGED <<w_base, w_row, w_call>>
    /\ UNCHANGED <<svars, pvars, avars, rvars, hvars>>

\* supabase_storage.py:174 and 205: save_conversation(conversation)
StoreSave(w) ==
    /\ wpc[w] = "read"
    /\ \E status \in PatchStatuses :
          /\ w_row' = save_conversation(w_row, w_conv[w], status)
          /\ w_log' = Append(w_log, << w, status >>)
    /\ wpc' = [ wpc EXCEPT ![w] = "saved" ]
    /\ UNCHANGED <<w_base, w_call, w_conv>>
    /\ UNCHANGED <<svars, pvars, avars, rvars, hvars>>

StoreNext == \E w \in Writers : StoreRead(w) \/ StoreSave(w)

StoreSpec == StoreInit /\ [][StoreNext]_vars

----------------------------------------------------------------------------
(* HistorySpec: build_chat_history applied to every stored history of at   *)
(* most MaxHistory messages.                                               *)

\* an assistant turn as add_assistant_message stores it, with its Stage 1
\* and Stage 2 detail and the given Stage 3 response
StoredAssistant(response) ==
    AssistantMessage(
        << [ model |-> COUNCIL_MODELS[1], response |-> TextContent(<< "s1" >>) ] >>,
        << [ model |-> COUNCIL_MODELS[1], ranking |-> << "r" >>,
             parsed_ranking |-> << "Response A" >> ] >>,
        [ model |-> CHAIRMAN_MODEL, response |-> response ])

\* the messages a stored history is made of: a user turn, an assistant turn
\* whose Stage 3 response is a text, is empty or is missing (None), and a
\* message of a role the function does not know
StoredMessages ==
    { UserMessage,
      StoredAssistant(TextContent(<< "s3" >>)),
      StoredAssistant(TextContent(<< >>)),
      StoredAssistant(NoneContent),
      [ role |-> "system", content |-> << "n" >> ] }

HistoryInit ==
    /\ h_history \in SeqsUpTo(StoredMessages, MaxHistory)
    /\ h_messages = << >>
    /\ hpc = "input"
    /\ ParseIdle
    /\ AggIdle
    /\ PipeIdle
    /\ RouterIdle
    /\ StoreIdle

\* council.py:128: messages = build_chat_history(history)
BuildHistory ==
    /\ hpc = "input"
    /\ h_messages' = build_chat_history(h_history)
    /\ hpc' = "built"
    /\ UNCHANGED h_history
    /\ UNCHANGED <<svars, pvars, avars, rvars, wvars>>

HistoryNext == BuildHistory

HistorySpec == HistoryInit /\ [][HistoryNext]_vars

----------------------------------------------------------------------------
(* Claims about the rank parser (ParseSpec) *)

Range(s) == { s[i] : i \in 1..Len(s) }

\* the indices of s that hold a lexeme satisfying P, in increasing order
RECURSIVE IndexSeq(_, _, _)
IndexSeq(s, P(_, _), i) ==
    IF i > Len(s) THEN << >>
    ELSE (IF P(s, i) THEN << i >> ELSE << >>) \o IndexSeq(s, P, i + 1)

LabelAt(s, k) == IsLabel(s[k])

\* the label at k closes "<digits>. Response <Letter>": a dot before it with
\* only white space between, and a digit right before the dot
NumberedLabelAt(s, k) ==
    /\ IsLabel(s[k])
    /\ \E j \in 2..(k - 1) :
          /\ IsDot(s[j])
          /\ IsDigit(s[j - 1])
          /\ \A m \in (j + 1)..(k - 1) : IsSpace(s[m])

LabelsAt(s, ix) == [ i \in 1..Len(ix) |-> s[ix[i]] ]
BareLabelsOf(s) == LabelsAt(s, IndexSeq(s, LabelAt, 1))
NumberedLabelsOf(s) == LabelsAt(s, IndexSeq(s, NumberedLabelAt, 1))

MarkerIndices(s) == { i \in 1..Len(s) : s[i] = Marker }
FirstMarker(s) == CHOOSE i \in MarkerIndices(s) : \A j \in MarkerIndices(s) : i <= j
\* everything after the first occurrence of the marker
AfterFirstMarker(s) == SubSeq(s, FirstMarker(s) + 1, Len(s))
\* the part the parser scans: after the first occurrence, up to the next one
ScannedRegion(s) ==
    LET f == FirstMarker(s)
        later == { i \in MarkerIndices(s) : i > f }
        n == IF later = {} THEN Len(s) + 1
             ELSE CHOOSE i \in later : \A j \in later : i <= j
    IN  SubSeq(s, f + 1, n - 1)

\* C6: the rank parser is total: for every text it returns a (possibly
\* empty) sequence whose every element is a label 'Response <Letter A-Z>'.
C6_ParserTotal ==
    ppc = "parsed" =>
        /\ DOMAIN parsed = 1..Len(parsed)
        /\ \A i \in 1..Len(parsed) : parsed[i] \in Labels

\* C6 witness: a text with the marker and malformed numbering (no dot) has
\* been parsed, by the bare fallback.
C6_Witness ==
    /\ ppc = "parsed"
    /\ text = << Marker, "1", " ", "Response A" >>
    /\ parsed = << "Response A" >>

\* C7 (as claimed): with the marker present the result is what the fallback
\* chain finds in the whole text after the first occurrence of the marker,
\* and nothing of the result comes from before that occurrence.
C7_WholeTextAfterFirstMarker ==
    (ppc = "parsed" /\ MarkerIndices(text) # {}) =>
        LET rest == AfterFirstMarker(text)
        IN  /\ parsed = (IF NumberedLabelsOf(rest) # << >>
                         THEN NumberedLabelsOf(rest) ELSE BareLabelsOf(rest))
            /\ Range(parsed) \subseteq Range(rest)

\* C8: the fallback chain.  With the marker: the numbered matches of the
\* scanned region if there is one, else every bare label of the region;
\* without the marker: every bare label of the entire text.
C8_FallbackChain ==
    ppc = "parsed" =>
        IF MarkerIndices(text) # {}
        THEN LET region == ScannedRegion(text)
             IN  IF NumberedLabelsOf(region) # << >>
                 THEN parsed = NumberedLabelsOf(region)
                 ELSE parsed = BareLabelsOf(region)
        ELSE parsed = BareLabelsOf(text)

\* C8 witness: the region holds a numbered label and a bare one, and only
\* the numbered one is returned although a label precedes the marker.
C8_Witness ==
    /\ ppc = "parsed"
    /\ text = << Marker, "1", ".", "Response A", "Response B" >>
    /\ parsed = << "Response A" >>

----------------------------------------------------------------------------
(* Claims about Stage 2 labelling and the aggregator (AggSpec) *)

Stage1Models(results) ==
    { results[i].model : i \in 1..Len(results) }

\* C5: N Stage 1 results get exactly the N distinct labels Response A ..
\* Response <N-th letter>, the i-th result the i-th letter, and the label
\* map is a bijection between those labels and the models of the results.
C5_LabelsBijection ==
    apc \in {"labelled", "aggregated"} =>
        LET n == Len(a_stage1)
        IN  /\ DOMAIN a_label_to_model = { LabelSeq[i] : i \in 1..n }
            /\ Cardinality(DOMAIN a_label_to_model) = n
            /\ \A i \in 1..n : a_label_to_model[LabelSeq[i]] = a_stage1[i].model
            /\ { a_label_to_model[lab] : lab \in DOMAIN a_label_to_model }
                  = Stage1Models(a_stage1)
            /\ \A l1, l2 \in DOMAIN a_label_to_model :
                  a_label_to_model[l1] = a_label_to_model[l2] => l1 = l2

\* C5 witness: two results, in an order that is not that of the council
\* list, have been labelled.
C5_Witness ==
    /\ apc = "labelled"
    /\ Len(a_stage1) = 2
    /\ a_stage1[1].model = ModelIdSeq[2]
    /\ a_label_to_model["Response A"] = ModelIdSeq[2]
    /\ a_label_to_model["Response B"] = ModelIdSeq[1]

\* the occurrences <<ranker, position>> of a model's label in the rankers'
\* parsed sequences
Occurrences(m) ==
    UNION { { << r, p >> :
                p \in { q \in 1..Len(a_stage2[r].parsed_ranking) :
                          /\ a_stage2[r].parsed_ranking[q] \in DOMAIN a_label_to_model
                          /\ a_label_to_model[a_stage2[r].parsed_ranking[q]] = m } } :
            r \in 1..Len(a_stage2) }

RECURSIVE SumPositions(_)
SumPositions(occ) ==
    IF occ = {} THEN 0
    ELSE LET rp == CHOOSE x \in occ : TRUE
         IN  rp[2] + SumPositions(occ \ {rp})

EntriesOf(m) == { i \in 1..Len(a_aggregate) : a_aggregate[i].model = m }

\* C9: a model has an aggregate entry iff its label occurs in some ranker's
\* parsed sequence; rankings_count is the number of occurrences (with
\* multiplicity) and average_rank is the mean of their 1-based positions
\* rounded to 2 decimals; a model never mentioned has no entry.
C9_AggregateEntries ==
    apc = "aggregated" =>
        /\ \A i \in 1..Len(a_aggregate) :
              a_aggregate[i].model \in Stage1Models(a_stage1)
        /\ \A m \in Stage1Models(a_stage1) :
              LET occ == Occurrences(m)
              IN  IF occ = {} THEN EntriesOf(m) = {}
                  ELSE /\ Cardinality(EntriesOf(m)) = 1
                       /\ \A i \in EntriesOf(m) :
                             /\ a_aggregate[i].rankings_count = Cardinality(occ)
                             /\ LET d == 100 * SumPositions(occ)
                                         - a_aggregate[i].average_rank * Cardinality(occ)
                                IN  /\ 2 * d <= Cardinality(occ)
                                    /\ -2 * d <= Cardinality(occ)

\* C9 witness: one ranker names Response A twice, another once; Response B
\* is never mentioned: one entry, count 3, mean 4/3 shown as 1.33.
C9_Witness ==
    /\ apc = "aggregated"
    /\ Len(a_stage1) = 2
    /\ Len(a_stage2) = 2
    /\ a_stage2[1].parsed_ranking = << "Response A", "Response A" >>
    /\ a_stage2[2].parsed_ranking = << "Response A" >>
    /\ Len(a_aggregate) = 1
    /\ a_aggregate[1] = [ model |-> a_stage1[1].model,
                          average_rank |-> 133, rankings_count |-> 3 ]

\* the first occurrence of a model's label, walking the rankers in order and
\* each parsed ranking in order
Earlier(x, y) == x[1] < y[1] \/ (x[1] = y[1] /\ x[2] < y[2])
FirstEncounter(m) ==
    CHOOSE x \in Occurrences(m) : \A y \in Occurrences(m) : x = y \/ Earlier(x, y)

\* C10: the aggregate is sorted in non-decreasing order of average rank, and
\* entries of equal average rank keep the order of first encounter.
C10_SortedStable ==
    apc = "aggregated" =>
        \A i, j \in 1..Len(a_aggregate) :
            i < j =>
                /\ a_aggregate[i].average_rank <= a_aggregate[j].average_rank
                /\ a_aggregate[i].average_rank = a_aggregate[j].average_rank =>
                      Earlier(FirstEncounter(a_aggregate[i].model),
                              FirstEncounter(a_aggregate[j].model))

\* C10 witness: two rankers disagree, both models average 1.5, and the model
\* behind Response B, met first, is listed first.
C10_Witness ==
    /\ apc = "aggregated"
    /\ Len(a_stage1) = 2
    /\ Len(a_stage2) = 2
    /\ a_stage2[1].parsed_ranking = << "Response B", "Response A" >>
    /\ a_stage2[2].parsed_ranking = << "Response A", "Response B" >>
    /\ Len(a_aggregate) = 2
    /\ a_aggregate[1].model = a_stage1[2].model
    /\ a_aggregate[1].average_rank = 150
    /\ a_aggregate[2].average_rank = 150

EndsWith(s, tail) ==
    /\ Len(tail) <= Len(s)
    /\ SubSeq(s, Len(s) - Len(tail) + 1, Len(s)) = tail

\* C11 (as claimed): with 2 Stage 1 results, a ranker whose raw text ends
\* with 'FINAL RANKING:' and the lines '1. Response B', '2. Response A' has
\* the parsed ranking [Response B, Response A], and when it is the only
\* ranking the aggregate lists the model behind Response B first with
\* average rank 1 and the model behind Response A second with average rank 2.
C11_RoundTrip ==
    (apc = "aggregated" /\ Len(a_stage1) = 2) =>
        \A r \in 1..Len(a_stage2) :
            EndsWith(a_stage2[r].ranking, RoundTripTail) =>
                /\ a_stage2[r].parsed_ranking = << "Response B", "Response A" >>
                /\ Len(a_stage2) = 1 =>
                      a_aggregate =
                          << [ model |-> a_stage1[2].model,
                               average_rank |-> 100, rankings_count |-> 1 ],
                             [ model |-> a_stage1[1].model,
                               average_rank |-> 200, rankings_count |-> 1 ] >>

\* the positions, over all rankers, that hold a label of the map
MappedPositions ==
    { rp \in UNION { { << r, p >> : p \in 1..Len(a_stage2[r].parsed_ranking) } :
                     r \in 1..Len(a_stage2) } :
        a_stage2[rp[1]].parsed_ranking[rp[2]] \in DOMAIN a_label_to_model }

RECURSIVE SumCounts(_)
SumCounts(aggregate) ==
    IF aggregate = << >> THEN 0
    ELSE aggregate[1].rankings_count + SumCounts(Tail(aggregate))

\* C30: the position recorded for a label is its 1-based index in the
\* ranker's whole parsed sequence: a label the map does not hold adds no
\* entry and no count (the counts add up to the number of positions that
\* hold a mapped label) but keeps its position, so a model named once, at
\* index p, has average rank p whatever precedes it; every average rank
\* lies between 1 and the length of the longest parsed sequence and every
\* rankings_count is at least 1.
C30_PositionsKept ==
    apc = "aggregated" =>
        /\ SumCounts(a_aggregate) = Cardinality(MappedPositions)
        /\ \A i \in 1..Len(a_aggregate) :
              /\ a_aggregate[i].rankings_count >= 1
              /\ a_aggregate[i].average_rank >= 100
              /\ \E r \in 1..Len(a_stage2) :
                    a_aggregate[i].average_rank
                       <= 100 * Len(a_stage2[r].parsed_ranking)
              /\ \A rp \in Occurrences(a_aggregate[i].model) :
                    Occurrences(a_aggregate[i].model) = { rp } =>
                       a_aggregate[i].average_rank = 100 * rp[2]

\* C30 witness: one Stage 1 result, so Response B is not in the map; the one
\* ranker lists Response B, then Response A: the model behind Response A
\* has average rank 2.
C30_Witness ==
    /\ apc = "aggregated"
    /\ Len(a_stage1) = 1
    /\ Len(a_stage2) = 1
    /\ a_stage2[1].parsed_ranking = << "Response B", "Response A" >>
    /\ a_aggregate = << [ model |-> a_stage1[1].model,
                          average_rank |-> 200, rankings_count |-> 1 ] >>

----------------------------------------------------------------------------
(* Claims about a turn (Spec) *)

AllStage1Failed == AllSettled(q1) /\ \A i \in Council : ~q1[i].resp.ok

\* C1: when every Stage 1 query fails, run_full_council returns empty
\* Stage 1 and Stage 2 lists, the fixed error Stage 3 payload and empty
\* metadata, and no Stage 2 and no chairman query is ever issued.
C1_AllFailedShortCircuit ==
    (path = "batch" /\ AllStage1Failed) =>
        /\ \A i \in Council : calls.s2[i] = 0
        /\ calls.s3 = 0
        /\ council # "raised"
        /\ pc = "done" => council = "returned"
        /\ council = "returned" =>
              /\ stage1_results = << >>
              /\ stage2_results = << >>
              /\ stage3_result = AllFailedResult
              /\ metadata = EmptyMetadata

\* C1 witness: both council queries were issued once and failed, and
\* run_full_council has returned.
C1_Witness ==
    /\ path = "batch"
    /\ AllStage1Failed
    /\ \A i \in Council : calls.s1[i] = 1
    /\ council = "returned"
    /\ stage3_result = AllFailedResult

\* C2 (as claimed): whatever the outcomes of the Stage 1, Stage 2 and
\* chairman queries, run_full_council never raises, and when the turn is over
\* it has returned a Stage 3 result that is the chairman's text or one of
\* the fixed error strings.
C2_AlwaysAStage3Result ==
    path = "batch" =>
        /\ council # "raised"
        /\ (pc = "done" /\ council # "none") =>
              /\ council = "returned"
              /\ ~stage3_result.response.null
              /\ stage3_result.response.text
                    \in { AnswerText, SynthesisError, AllFailedError }

IsPrefix(a, b) == Len(a) <= Len(b) /\ SubSeq(b, 1, Len(a)) = a

EventOrderWithTitle ==
    << "stage1_start", "stage1_complete", "stage2_start", "stage2_complete",
       "stage3_start", "stage3_complete", "title_complete", "complete" >>
EventOrderNoTitle ==
    << "stage1_start", "stage1_complete", "stage2_start", "stage2_complete",
       "stage3_start", "stage3_complete", "complete" >>

\* C3: the events of an incremental request are a prefix of stage1_start,
\* stage1_complete, stage2_start, stage2_complete, stage3_start,
\* stage3_complete, [title_complete], complete, ended by complete after the
\* whole sequence or by one error event; nothing follows complete or error
\* and no event occurs twice.
C3_EventOrder ==
    LET ended == events # << >> /\ events[Len(events)] = "error"
        body == IF ended THEN SubSeq(events, 1, Len(events) - 1) ELSE events
    IN  /\ IsPrefix(body, EventOrderWithTitle) \/ IsPrefix(body, EventOrderNoTitle)
        /\ "error" \notin Range(body)
        /\ ended => "complete" \notin Range(body)
        /\ IsInjective(events)
        /\ path # "stream" => events = << >>
        /\ (path = "stream" /\ pc = "done" /\ outcome = "streamed") =>
              /\ events # << >>
              /\ events[Len(events)] \in { "complete", "error" }

\* C3 witness: a first message was streamed to the end, title included.
C3_Witness ==
    /\ path = "stream"
    /\ pc = "done"
    /\ events = EventOrderWithTitle

Stage1Collected == AllSettled(q1) /\ pc # "s1_wait"

CouncilIndex(m) == CHOOSE i \in Council : COUNCIL_MODELS[i] = m

\* C4: the Stage 1 results are exactly the council models whose query
\* succeeded, each once, in the order of the council list, with no entry for
\* a failed model; so there are never more results than models queried.
C4_Stage1Results ==
    Stage1Collected =>
        /\ Len(stage1_results) <= Len(COUNCIL_MODELS)
        /\ \A k \in 1..Len(stage1_results) :
              \E i \in Council :
                  /\ stage1_results[k].model = COUNCIL_MODELS[i]
                  /\ q1[i].resp.ok
                  /\ stage1_results[k].response = q1[i].resp.content
        /\ \A i \in Council :
              q1[i].resp.ok =>
                  \E k \in 1..Len(stage1_results) :
                      stage1_results[k].model = COUNCIL_MODELS[i]
        /\ \A k, l \in 1..Len(stage1_results) :
              k < l => CouncilIndex(stage1_results[k].model)
                          < CouncilIndex(stage1_results[l].model)

\* C4 witness: the first council model failed and the second answered: one
\* result, that of the second model.
C4_Witness ==
    /\ Stage1Collected
    /\ ~q1[1].resp.ok
    /\ q1[2].resp.ok
    /\ Len(stage1_results) = 1
    /\ stage1_results[1].model = COUNCIL_MODELS[2]

Stage2Collected == AllSettled(q2) /\ pc # "s2_wait"

Stage2EntriesOf(i) ==
    { k \in 1..Len(stage2_results) : stage2_results[k].model = COUNCIL_MODELS[i] }

ReturnedText(q) == q.st = "settled" /\ q.resp.ok /\ ~q.resp.content.null

\* C12 (as claimed): every council model whose Stage 2 query returned text
\* contributes exactly one Stage 2 entry holding its raw text and its parsed
\* ranking, also when the text cannot be parsed: the entry is kept with an
\* empty parsed ranking instead of being dropped.
C12_OneEntryPerText ==
    Stage2Collected =>
        \A i \in Council :
            ReturnedText(q2[i]) =>
                /\ Cardinality(Stage2EntriesOf(i)) = 1
                /\ \A k \in Stage2EntriesOf(i) :
                      /\ stage2_results[k].ranking = q2[i].resp.content.text
                      /\ stage2_results[k].parsed_ranking =
                            parse_ranking_from_text(q2[i].resp.content.text)

\* C13 (as claimed): a council model whose Stage 2 query failed still has
\* an entry in the Stage 2 result list, with an empty parsed ranking.
C13_FailedRankerKeptEmpty ==
    Stage2Collected =>
        \A i \in Council :
            ~q2[i].resp.ok =>
                \E k \in Stage2EntriesOf(i) :
                    stage2_results[k].parsed_ranking = << >>

\* C13 (amended): a council model whose Stage 2 query fails is not retried
\* and has no entry in the Stage 2 result list, exactly as a model whose
\* Stage 1 query fails has no entry in the Stage 1 results.
C13_FailedRankerDropped ==
    /\ \A i \in Council : calls.s1[i] <= 1 /\ calls.s2[i] <= 1
    /\ Stage2Collected =>
          \A i \in Council : ~q2[i].resp.ok => Stage2EntriesOf(i) = {}
    /\ Stage1Collected =>
          \A i \in Council :
              ~q1[i].resp.ok =>
                  \A k \in 1..Len(stage1_results) :
                      stage1_results[k].model # COUNCIL_MODELS[i]

\* C13 witness: the first council model's Stage 2 query failed after one
\* call, the second returned text, and the result list holds one entry, that
\* of the second model.
C13_Witness ==
    /\ Stage2Collected
    /\ ~q2[1].resp.ok
    /\ calls.s2[1] = 1
    /\ ReturnedText(q2[2])
    /\ Len(stage2_results) = 1
    /\ stage2_results[1].model = COUNCIL_MODELS[2]

SomeStage1Succeeded == \E i \in Council : q1[i].resp.ok

LabelledModels == { label_to_model[lab] : lab \in DOMAIN label_to_model }
AggregateModels ==
    { aggregate_rankings[k].model : k \in 1..Len(aggregate_rankings) }

\* C14: in a turn with at least one Stage 1 success every council model
\* receives exactly one Stage 1 query and exactly one Stage 2 query, the
\* Stage 2 prompt being the same for all of them, failed Stage 1 models
\* included; no call is repeated, and a model that failed in Stage 1 is in
\* neither the Stage 1 results, the label map nor the aggregate.
C14_OneQueryPerStage ==
    /\ \A i \in Council : calls.s1[i] <= 1 /\ calls.s2[i] <= 1
    /\ (Stage1Collected /\ SomeStage1Succeeded) =>
          /\ \A i \in Council :
                /\ calls.s1[i] = 1
                /\ calls.s2[i] = 1
                /\ sent.s1[i] = Stage1Messages(UserQuery, history)
                /\ sent.s2[i] =
                       Stage2Messages(UserQuery, stage1_results,
                                      HistoryContext(history))
          /\ \A i, j \in Council : sent.s2[i] = sent.s2[j]
          /\ \A i \in Council :
                ~q1[i].resp.ok =>
                    /\ COUNCIL_MODELS[i] \notin Stage1Models(stage1_results)
                    /\ COUNCIL_MODELS[i] \notin LabelledModels
                    /\ COUNCIL_MODELS[i] \notin AggregateModels

\* C14 witness: the first model failed in Stage 1 and the second answered;
\* both got the one Stage 2 prompt, both ranked, and the aggregate holds the
\* second model only.
C14_Witness ==
    /\ Stage1Collected
    /\ Stage2Collected
    /\ ~q1[1].resp.ok
    /\ q1[2].resp.ok
    /\ calls.s2[1] = 1
    /\ ReturnedText(q2[1])
    /\ sent.s2[1] = sent.s2[2]
    /\ Len(sent.s2[1][1].content.responses) = 1
    /\ AggregateModels = { COUNCIL_MODELS[2] }

Stage3Entered == q3.st # "idle"
Stage3Returned == q3.st = "settled" /\ pc # "s3_wait"

\* C18: Stage 3 issues exactly one chairman query per turn; its result
\* names the chairman model, and when the chairman query fails the result
\* is the fixed text 'Error: Unable to generate final synthesis.' and the
\* turn goes on: run_full_council returns, the incremental path emits
\* stage3_complete.
C18_OneChairmanQuery ==
    /\ calls.s3 <= 1
    /\ Stage3Entered => calls.s3 = 1
    /\ Stage3Returned =>
          /\ stage3_result.model = CHAIRMAN_MODEL
          /\ stage3_result.response =
                (IF q3.resp.ok THEN q3.resp.content
                 ELSE TextContent(SynthesisError))
          /\ path = "batch" => council = "returned"
          /\ path = "stream" =>
                /\ "stage3_complete" \in Range(events)
                /\ events[Len(events)] = "error" => ~store.exists

\* C18 witness: on the incremental path the one chairman query failed, and
\* the turn completed with the fixed error text as its Stage 3 result.
C18_Witness ==
    /\ path = "stream"
    /\ Stage3Returned
    /\ ~q3.resp.ok
    /\ calls.s3 = 1
    /\ stage3_result = [ model |-> CHAIRMAN_MODEL,
                          response |-> TextContent(SynthesisError) ]
    /\ events[Len(events)] = "complete"

\* C19 (as claimed): on the incremental path too, when zero council models
\* succeed in Stage 1 no Stage 2 query and no chairman query is issued and
\* the Stage 3 data is the fixed all-failed error result.
C19_StreamShortCircuit ==
    (path = "stream" /\ Stage1Collected /\ AllStage1Failed) =>
        /\ \A i \in Council : calls.s2[i] = 0
        /\ calls.s3 = 0
        /\ stage3_result \in { NoResult, AllFailedResult }
        /\ "stage3_complete" \in Range(events) => stage3_result = AllFailedResult

ChairmanSeats == { i \in Council : COUNCIL_MODELS[i] = CHAIRMAN_MODEL }

NoQueryIssued ==
    /\ calls = ZeroCalls
    /\ \A i \in Council : q1[i].st = "idle" /\ q2[i].st = "idle"
    /\ q3.st = "idle"
    /\ qt.st = "idle"

\* C21: a send-message request, batch or incremental, for a conversation
\* the store does not hold is rejected at once with 404: no model query is
\* issued, no turn is appended and the store is left unchanged, then and
\* for the rest of the request.
C21_NotFoundRejected ==
    /\ [](outcome = "http404" =>
            /\ pc = "done"
            /\ NoQueryIssued
            /\ store = NoConversation
            /\ events = << >>)
    /\ [][(pc = "idle" /\ ~store.exists) =>
            /\ outcome' = "http404"
            /\ store' = store
            /\ calls' = calls]_vars

\* C21 witness: an incremental request for a deleted conversation ended
\* with 404 and nothing issued.
C21_Witness ==
    /\ path = "stream"
    /\ outcome = "http404"
    /\ ~store.exists
    /\ NoQueryIssued

\* C22: the title query is issued only in a turn whose conversation had
\* no messages, once, apart from the stage queries; when it fails the title
\* is the fallback 'New Conversation'; a title has at most 50 characters;
\* and a failed title query does not keep the incremental path from
\* emitting every stage event, title_complete and complete.
C22_TitleGeneration ==
    /\ calls.title <= 1
    /\ (qt.st # "idle") <=> (calls.title = 1)
    /\ calls.title = 1 => (is_first_message /\ history = << >>)
    /\ (pc \in { "s1_wait", "s2_wait", "s3_wait" } /\ is_first_message) =>
          calls.title = 1
    /\ title # NoTitle =>
          /\ qt.st = "settled"
          /\ title.len <= TitleLimit
          /\ ~qt.resp.ok => title = FallbackTitle
          /\ qt.resp.ok => ~title.fallback
    /\ (path = "stream" /\ pc = "done" /\ qt.st = "settled" /\ ~qt.resp.ok
           /\ "stage3_complete" \in Range(events) /\ store.exists) =>
          /\ events = EventOrderWithTitle
          /\ store.title = FallbackTitle

\* C22 witness: the first message of a conversation was streamed, the
\* title query failed, and the turn ended with all events and the fallback
\* title.
C22_Witness ==
    /\ path = "stream"
    /\ pc = "done"
    /\ is_first_message
    /\ calls.title = 1
    /\ ~qt.resp.ok
    /\ title = FallbackTitle
    /\ events = EventOrderWithTitle

StageOrder == << "IDLE", "COLLECTING", "RANKING", "SYNTHESIZING", "DONE" >>

\* the stage of the turn, read from the queries that have been issued
TurnStage ==
    IF pc = "done" THEN "DONE"
    ELSE IF q3.st # "idle" THEN "SYNTHESIZING"
    ELSE IF \E i \in Council : q2[i].st # "idle" THEN "RANKING"
    ELSE IF \E i \in Council : q1[i].st # "idle" THEN "COLLECTING"
    ELSE "IDLE"

StageIndex(st) == CHOOSE k \in 1..Len(StageOrder) : StageOrder[k] = st

\* C23: the stages of a turn follow COLLECTING, RANKING, SYNTHESIZING, DONE
\* and never go back: a Stage 2 query exists only when every Stage 1 query
\* has settled, the chairman query only when every Stage 2 query has
\* settled, and a settled query is never replaced or withdrawn.
C23_StagesInOrder ==
    /\ []((\E i \in Council : q2[i].st # "idle") =>
            \A j \in Council : q1[j].st = "settled")
    /\ [](q3.st # "idle" =>
            \A j \in Council : q1[j].st = "settled" /\ q2[j].st = "settled")
    /\ [][/\ StageIndex(TurnStage') >= StageIndex(TurnStage)
           /\ \A i \in Council :
                 /\ q1[i].st = "settled" => q1'[i] = q1[i]
                 /\ q2[i].st = "settled" => q2'[i] = q2[i]
                 /\ q1[i].st = "pending" => q1'[i].st \in { "pending", "settled" }
                 /\ q2[i].st = "pending" => q2'[i].st \in { "pending", "settled" }]_vars

\* C23 witness: the chairman query is in flight; in Stage 1 the first model
\* had failed and the second answered, and both Stage 2 queries have
\* settled.
C23_Witness ==
    /\ TurnStage = "SYNTHESIZING"
    /\ q3.st = "pending"
    /\ q1[1].st = "settled" /\ ~q1[1].resp.ok
    /\ q1[2].st = "settled" /\ q1[2].resp.ok
    /\ \A i \in Council : q2[i].st = "settled"

TerminalEvents ==
    { k \in 1..Len(events) : events[k] \in { "complete", "error" } }

\* C24 (as claimed): when every model call settles, a started turn reaches
\* its end: run_full_council eventually returns, and the incremental path
\* eventually ends with exactly one terminal event, complete or error.
C24_TurnEnds ==
    /\ (council = "running") ~> (council = "returned")
    /\ (path = "stream" /\ pc = "add_user") ~>
          (pc = "done" /\ TerminalEvents = { Len(events) })

----------------------------------------------------------------------------
(* Claims about the router and the adapters (RouterSpec) *)

RouterStarted == rpc \in { "running", "returned" }

\* the ways a query ends without an answer
FailedOutcomes ==
    { "transport_error", "http_status_error", "malformed_body",
      "no_candidates", "not_called" }

\* the distinct identifiers of a list, in the order of first occurrence
RECURSIVE DistinctInOrder(_)
DistinctInOrder(q) ==
    IF q = << >> THEN << >>
    ELSE LET d == DistinctInOrder(SubSeq(q, 1, Len(q) - 1))
         IN  IF q[Len(q)] \in Range(d) THEN d ELSE Append(d, q[Len(q)])

LastTaskOf(m) ==
    CHOOSE i \in 1..Len(r_models) :
        /\ r_models[i] = m
        /\ \A j \in 1..Len(r_models) : r_models[j] = m => j <= i

\* every task was started with the others, and each ended by its own
\* outcome only
TasksIndependent ==
    /\ Len(r_tasks) = Len(r_models)
    /\ \A i \in 1..Len(r_tasks) :
          /\ r_tasks[i].st \in { "awaiting", "settled" }
          /\ r_tasks[i].st = "settled" =>
                /\ r_tasks[i].resp =
                      query_model(r_models[i], r_tasks[i].outcome, AnswerText)
                /\ r_tasks[i].outcome \in FailedOutcomes =>
                      r_tasks[i].resp = Failure

\* C15 (as claimed): query_models_parallel starts all queries together,
\* returns after every query has settled, and returns a mapping with one
\* entry per element of the input list, a failed query being Failure; no
\* query is cancelled or changed by another.
C15_OneEntryPerElement ==
    /\ RouterStarted => TasksIndependent
    /\ rpc = "returned" =>
          /\ \A i \in 1..Len(r_tasks) : r_tasks[i].st = "settled"
          /\ Len(r_result) = Len(r_models)
          /\ \A i \in 1..Len(r_result) :
                /\ r_result[i].model = r_models[i]
                /\ r_result[i].response = r_tasks[i].resp

\* C15 (amended): query_models_parallel starts all queries together,
\* returns after every query has settled, and returns a mapping with one
\* entry per distinct identifier of the input list, in the order of first
\* occurrence, holding the response of the last query for that identifier,
\* a failed query being Failure; no query is cancelled or changed by
\* another.
C15_OneEntryPerIdentifier ==
    /\ RouterStarted => TasksIndependent
    /\ rpc = "returned" =>
          /\ \A i \in 1..Len(r_tasks) : r_tasks[i].st = "settled"
          /\ [ i \in 1..Len(r_result) |-> r_result[i].model ]
                = DistinctInOrder(r_models)
          /\ \A i \in 1..Len(r_result) :
                r_result[i].response = r_tasks[LastTaskOf(r_result[i].model)].resp

\* C15 witness: the same identifier twice; the first query answered, the
\* second failed, and the mapping has one entry, the Failure.
C15_Witness ==
    /\ rpc = "returned"
    /\ r_models = << COUNCIL_MODELS[1], COUNCIL_MODELS[1] >>
    /\ r_tasks[1].outcome = "content_text"
    /\ r_tasks[2].outcome = "transport_error"
    /\ r_result = << [ model |-> COUNCIL_MODELS[1], response |-> Failure ] >>

\* the ways the outbound call ends that the adapter must turn into Failure:
\* a transport error or timeout, a non-2xx status, a body that is malformed
\* or lacks the content
MustFail ==
    { "transport_error", "http_status_error", "malformed_body",
      "no_candidates", "content_null" }

\* C16 (as claimed): an adapter makes exactly one outbound call and never
\* raises: a transport error, a timeout, a non-2xx status and a malformed
\* or incomplete body all give Failure, and a success gives a response
\* carrying content.
C16_FailureOrContent ==
    RouterStarted =>
        \A i \in 1..Len(r_tasks) :
            r_tasks[i].adapter # "none" =>
                /\ r_tasks[i].outbound = 1
                /\ r_tasks[i].st = "settled" =>
                      IF r_tasks[i].outcome \in MustFail
                      THEN r_tasks[i].resp = Failure
                      ELSE /\ r_tasks[i].resp.ok
                           /\ ~r_tasks[i].resp.content.null

\* the provider prefix of an identifier
ProviderPrefix(model) ==
    IF model = COUNCIL_MODELS[1] THEN "openai/"
    ELSE IF model = COUNCIL_MODELS[2] THEN "google/"
    ELSE "anthropic/"

\* C17: query_model dispatches on the provider prefix: a recognized prefix
\* invokes exactly that provider's adapter once; any other identifier
\* yields Failure without invoking an adapter and without raising.
C17_PrefixDispatch ==
    RouterStarted =>
        \A i \in 1..Len(r_tasks) :
            IF ProviderPrefix(r_models[i]) = "openai/"
            THEN r_tasks[i].adapter = "openai" /\ r_tasks[i].adapter_calls = 1
            ELSE IF ProviderPrefix(r_models[i]) = "google/"
            THEN r_tasks[i].adapter = "google" /\ r_tasks[i].adapter_calls = 1
            ELSE /\ r_tasks[i].adapter = "none"
                 /\ r_tasks[i].adapter_calls = 0
                 /\ r_tasks[i].outbound = 0
                 /\ r_tasks[i].st = "settled"
                 /\ r_tasks[i].resp = Failure

\* C17 witness: an identifier of an unknown provider and one of OpenAI were
\* queried: the first gave Failure with no adapter call, the second went to
\* the OpenAI adapter and was answered.
C17_Witness ==
    /\ rpc = "returned"
    /\ r_models = << UnknownModel, COUNCIL_MODELS[1] >>
    /\ r_tasks[1].adapter_calls = 0
    /\ r_tasks[2].adapter = "openai"
    /\ r_tasks[2].resp = Success(TextContent(AnswerText))
    /\ r_result[1].response = Failure

----------------------------------------------------------------------------
(* Claims about the conversation store (StoreSpec) *)

\* where the table served the request of writer w: its read, its PATCH
LogIndex(w, what) ==
    CHOOSE k \in 1..Len(w_log) : w_log[k] = << w, what >>
Logged(w, what) == \E k \in 1..Len(w_log) : w_log[k] = << w, what >>

\* both writers appended and both PATCH requests were applied
BothWrote == \A w \in Writers : wpc[w] = "saved" /\ Logged(w, "applied")
\* both read before either writes
BothReadFirst ==
    \A w, v \in Writers : LogIndex(w, "read") < LogIndex(v, "applied")
\* one writer has written before the other reads
WritersInTurn(first, second) ==
    /\ first # second
    /\ LogIndex(first, "applied") < LogIndex(second, "read")

WrittenMessage(w) == WriterMessage(w, w_call[w])

\* C25: a turn is appended by reading the whole row and writing it back,
\* with nothing that detects an intervening write: every applied PATCH
\* makes the row's messages what the writer read plus its own message; when
\* both writers read before either writes, the row ends as the base plus
\* the message of the writer that wrote last, the other one lost; when one
\* writes before the other reads, the row ends as the base plus both
\* messages in that order.
C25_LostUpdate ==
    /\ [](BothWrote /\ BothReadFirst =>
            \E w, v \in Writers :
               /\ w # v
               /\ LogIndex(v, "applied") < LogIndex(w, "applied")
               /\ w_row.messages = Append(w_base.messages, WrittenMessage(w))
               /\ WrittenMessage(v) \notin Range(w_row.messages))
    /\ [](\A w, v \in Writers :
            BothWrote /\ WritersInTurn(w, v) =>
               w_row.messages =
                  w_base.messages \o << WrittenMessage(w), WrittenMessage(v) >>)
    /\ [][\A w \in Writers :
             wpc[w] = "read" /\ wpc'[w] = "saved" /\ Logged(w, "applied")' =>
                w_row'.messages = w_conv[w].messages]_vars

\* both writers read the two-message row, then both wrote: one turn is lost
C25_Witness ==
    /\ BothWrote
    /\ BothReadFirst
    /\ w_base.messages = PriorTurn
    /\ w_call = [ w \in Writers |-> "add_user_message" ]
    /\ Len(w_row.messages) = Len(w_base.messages) + 1

----------------------------------------------------------------------------
(* Claims about the reconstructed history (HistorySpec) *)

IsTurn(h, k) == h[k].role \in { "user", "assistant" }

\* the Stage 1 responses and Stage 2 ranking texts stored in a history
StageDetail(h) ==
    UNION { { h[k].stage1[i].response.text : i \in 1..Len(h[k].stage1) }
              \cup { h[k].stage2[i].ranking : i \in 1..Len(h[k].stage2) } :
            k \in { n \in 1..Len(h) : h[n].role = "assistant" } }

\* C26: build_chat_history returns one message, of a role and a content
\* only, per user or assistant message of the history, in the history's
\* order; a user message keeps its content, an assistant message gives its
\* Stage 3 response text, or the fixed placeholder when that response is
\* missing or empty; no Stage 1 response or Stage 2 ranking of the history
\* is the content of a returned message.
C26_HistoryMessages ==
    hpc = "built" =>
       LET kept == IndexSeq(h_history, IsTurn, 1)
       IN  /\ Len(h_messages) = Len(kept)
           /\ \A j \in 1..Len(kept) :
                 LET msg == h_history[kept[j]]
                     m == h_messages[j]
                 IN  /\ DOMAIN m = { "role", "content" }
                     /\ m.role = msg.role
                     /\ ~m.content.null
                     /\ m.content.text \notin StageDetail(h_history)
                     /\ msg.role = "user" => m.content.text = msg.content
                     /\ msg.role = "assistant" =>
                           m.content.text =
                              IF msg.stage3.response.null
                                 \/ msg.stage3.response.text = << >>
                              THEN HistoryPlaceholder
                              ELSE msg.stage3.response.text

\* a user turn, an assistant turn without a Stage 3 response and one with
C26_Witness ==
    /\ hpc = "built"
    /\ h_history = << UserMessage, StoredAssistant(NoneContent),
                      StoredAssistant(TextContent(<< "s3" >>)) >>
    /\ Len(h_messages) = MaxHistory
    /\ h_messages[2].content = TextContent(HistoryPlaceholder)

----------------------------------------------------------------------------
(* Claims about the history and the store during a turn (Spec) *)

Stage1Issued == \A i \in Council : q1[i].st # "idle"
\* what a row gains from the writes of the messages in turns, each PATCH
\* applied or rejected: the messages whose write was applied, in order
RECURSIVE Kept(_)
Kept(turns) ==
    IF turns = << >> THEN { << >> }
    ELSE LET rest == Kept(Tail(turns))
         IN  rest \cup { << turns[1] >> \o r : r \in rest }
NewUserTurn == [ role |-> "user", content |-> TextContent(UserQuery) ]

\* C27: once the handler has read the history, no step of the turn changes
\* it; the messages of every Stage 1 query are the reconstructed history
\* followed by the new user turn, once: one message more than the
\* reconstructed history, although the write of the new user message has
\* been sent before Stage 1 is issued: the row, unless it was deleted, then
\* holds the history followed by the new user message, or the history alone
\* when the PATCH was rejected.
C27_HistoryReadOnly ==
    /\ [][pc # "idle" => history' = history]_vars
    /\ [](Stage1Issued =>
            \A i \in Council :
               /\ sent.s1[i] = build_chat_history(history) \o << NewUserTurn >>
               /\ Len(sent.s1[i]) = Len(history) + 1)
    /\ [][~Stage1Issued /\ Stage1Issued' /\ store'.exists =>
             store'.messages \in { history \o kept : kept \in Kept(<< UserMessage >>) }]_vars

\* Stage 1 is running on a conversation of one earlier turn: the row holds
\* three messages, the queries three
C27_Witness ==
    /\ pc = "s1_wait"
    /\ history = PriorTurn
    /\ store.messages = PriorTurn \o << UserMessage >>
    /\ sent.s1[1] = build_chat_history(PriorTurn) \o << NewUserTurn >>

\* what the pipeline makes of the outcomes of the calls, whichever handler
\* runs it
Stage1Items == query_models_parallel(COUNCIL_MODELS, Responses(q1))
Stage2Items == query_models_parallel(COUNCIL_MODELS, Responses(q2))
ExpectedStage1 == Stage1Format(Stage1Items)
ExpectedStage2 == Stage2Format(Stage2Items)
ExpectedLabels == LabelToModel(ExpectedStage1)
ExpectedAggregate == calculate_aggregate_rankings(ExpectedStage2, ExpectedLabels)
ExpectedStage3 == stage3_synthesize_final(q3.resp)
ExpectedTurn == AssistantMessage(ExpectedStage1, ExpectedStage2, ExpectedStage3)

\* the request is over and some council model answered in Stage 1
TurnOverWithAnswer ==
    /\ pc = "done"
    /\ AllSettled(q1)
    /\ ExpectedStage1 # << >>

\* C28: when some council model succeeds in Stage 1, what a finished
\* request has issued, computed and stored is one function of the history,
\* the user input and the outcomes of the calls, the same for the batch and
\* the incremental handler: one Stage 1 and one Stage 2 query per model with
\* the same messages, the same Stage 1 results and label map, and, unless
\* parsing a ranking raised, the same Stage 2 results, aggregate rankings,
\* chairman query and Stage 3 result, and the same assistant turn written
\* after the user message (the row holds each of the two unless its PATCH
\* was rejected).
C28_PathsEquivalent ==
    TurnOverWithAnswer =>
       /\ \A i \in Council :
             /\ calls.s1[i] = 1
             /\ calls.s2[i] = 1
             /\ sent.s1[i] = Stage1Messages(UserQuery, history)
             /\ sent.s2[i] = Stage2Messages(UserQuery, ExpectedStage1,
                                            HistoryContext(history))
       /\ calls.title = (IF is_first_message THEN 1 ELSE 0)
       /\ stage1_results = ExpectedStage1
       /\ label_to_model = ExpectedLabels
       /\ AllSettled(q2)
       /\ IF Stage2Raises(Stage2Items)
          THEN /\ calls.s3 = 0
               /\ q3.st = "idle"
               /\ store.exists =>
                     store.messages \in
                        { history \o kept : kept \in Kept(<< UserMessage >>) }
          ELSE /\ stage2_results = ExpectedStage2
               /\ aggregate_rankings = ExpectedAggregate
               /\ calls.s3 = 1
               /\ q3.st = "settled"
               /\ stage3_result = ExpectedStage3
               /\ store.exists =>
                     store.messages \in
                        { history \o kept :
                            kept \in Kept(<< UserMessage, ExpectedTurn >>) }

\* a batch request in which one council model failed in Stage 1 and the
\* other answered has stored its assistant turn
C28_Witness ==
    /\ TurnOverWithAnswer
    /\ path = "batch"
    /\ ~q1[1].resp.ok
    /\ q1[2].resp.ok
    /\ q3.st = "settled"
    /\ store.messages = history \o << UserMessage, ExpectedTurn >>
    /\ Len(aggregate_rankings) = 1

\* the request ended well: send_message returned its response, or the
\* incremental path sent complete
TurnCompleted ==
    \/ path = "batch" /\ pc = "done" /\ outcome = "returned"
    \/ /\ path = "stream" /\ pc = "done"
       /\ events # << >> /\ events[Len(events)] = "complete"

StoredTurn == AssistantMessage(stage1_results, stage2_results, stage3_result)

Alternates(messages) ==
    \A k \in 1..Len(messages) :
       messages[k].role = (IF k % 2 = 1 THEN "user" ELSE "assistant")

\* C29 (as claimed): no other client writing, a completed turn has extended
\* the stored messages by one user message followed by one assistant
\* message, so that they alternate user, assistant from the first on; the
\* user message is in the row when the first Stage 1 query is issued, and
\* the assistant message enters it after the Stage 3 result and before
\* complete is sent.
C29_TurnStored ==
    /\ [](TurnCompleted =>
            /\ store.messages = history \o << UserMessage, StoredTurn >>
            /\ Alternates(store.messages))
    /\ [][~Stage1Issued /\ Stage1Issued' /\ store'.exists =>
             store'.messages = history \o << UserMessage >>]_vars
    /\ [][Len(store'.messages) > Len(store.messages) /\ Stage1Issued =>
             /\ stage3_result' # NoResult
             /\ store'.messages[Len(store'.messages)].stage3 = stage3_result'
             /\ "complete" \notin Range(events)]_vars

====
